---- MODULE Spec2Model ----
(***************************************************************************)
(* Credential lifecycle of the integrations backend: the edge functions    *)
(* storeCredentials, refreshToken, revokeToken and healthCheck, and the    *)
(* bootstrap workers, all acting on the shared Postgres tables             *)
(* integrations, credentials, integration_sync_jobs and integration_logs.  *)
(*                                                                         *)
(* Every handler is an async function: each awaited datastore or provider  *)
(* call is one atomic step, and steps of concurrent invocations interleave.*)
(* Table rows are kept in sequences; a row's id is its index.              *)
(***************************************************************************)
EXTENDS Integers, Sequences, FiniteSets, TLC

VARIABLES
  integrations,   \* table integrations
  credentials,    \* table credentials
  jobs,           \* table integration_sync_jobs
  logs,           \* table integration_logs (set of rows written so far)
  storeReq,       \* the storeCredentials invocation in flight
  revokeReq,      \* the revokeToken invocation in flight
  refreshReq,     \* the refreshToken invocations in flight (one per slot)
  sweep,          \* the healthCheck invocation in flight
  worker,         \* the bootstrap workers (one per slot)
  queue,          \* BullMQ queue 'integration-bootstrap'
  now,            \* wall clock, in minutes
  ops,            \* number of handler invocations started so far
  due,            \* inputs of the refresh-due decision (SpecDue only)
  oauth_states,   \* table oauth_states
  callbackReq,    \* the OAuth callback invocations in flight (one per slot)
  getReq,         \* the getCredential calls in flight (one per slot)
  integration_webhooks,  \* table integration_webhooks
  integration_events,    \* table integration_events
  webhookReq,     \* the webhook invocation in flight
  client,         \* the browser's integration store (zustand, persisted)
  cryptoCall,     \* one encrypt / decrypt round (SpecCrypto only)
  pluginCall      \* one call of a provider plugin (SpecPlugin only)

vars == <<integrations, credentials, jobs, logs, storeReq, revokeReq,
          refreshReq, sweep, worker, queue, now, ops, due, oauth_states,
          callbackReq, getReq, integration_webhooks, integration_events,
          webhookReq, client, cryptoCall, pluginCall>>

----------------------------------------------------------------------------
(* Bounds of the model *)

\* handler invocations started in one behaviour
MaxOps == 3

----------------------------------------------------------------------------
(* Values *)

\* SQL NULL / JS null in a numeric or text column
Null == -1
\* a key that is undefined in the request body (dropped by JSON.stringify)
Absent == -2
\* workspace_id IS NULL
NoWorkspace == "null"
\* error_message IS NULL
NoError == "null"

Users == {"u1"}
Platforms == {"gmail", "slack"}
Workspaces == {NoWorkspace, "w1"}

\* plaintext secrets a client may send; 0 is the empty string / a missing field
AccessTokens == {1, 2}
RefreshTokens == {0, 3}
\* expiresAt of a store request, minutes on the wall clock
Expiries == {Absent, 30}

----------------------------------------------------------------------------
(* Cipher: util/crypto.ts.  A ciphertext is the plaintext shifted by       *)
(* CipherOffset.                                                           *)

CipherOffset == 100

encrypt(data) == IF data = 0 THEN 0 ELSE data + CipherOffset

\* damaged ciphertexts: bytes.toString(CryptoJS.enc.Utf8) either returns the
\* empty string (the padding check leaves no bytes) or throws
\* Error("Malformed UTF-8 data")
CorruptEmpty == 998
CorruptMalformed == 999
CorruptCiphertexts == {CorruptEmpty, CorruptMalformed}

\* the result of a decrypt call that throws Error("Malformed UTF-8 data")
Malformed == -3

\* 0 is the empty string
decrypt(encryptedData) ==
  IF encryptedData = 0 \/ encryptedData = CorruptEmpty THEN 0
  ELSE IF encryptedData = CorruptMalformed THEN Malformed
  ELSE encryptedData - CipherOffset

\* handlers: `x ? decrypt(x, key) : null`, then tested with `!`
decryptOrNull(encryptedData) ==
  IF encryptedData = Null THEN 0 ELSE decrypt(encryptedData)

\* storeCredentials: `x ? encrypt(x, key) : null`
encryptOrNull(data) == IF data = 0 THEN Null ELSE encrypt(data)

----------------------------------------------------------------------------
(* Datastore primitives *)

Ids(table) == DOMAIN table

\* rows that conflict with (user_id, provider_key, workspace_id): UNIQUE treats
\* NULL workspace_ids as distinct, so a NULL workspace never conflicts
IntegrationConflict(u, p, w) ==
  {i \in Ids(integrations) :
      /\ integrations[i].user_id = u
      /\ integrations[i].provider_key = p
      /\ w # NoWorkspace
      /\ integrations[i].workspace_id = w}

\* rows that conflict with (user_id, platform)
CredentialConflict(u, p) ==
  {c \in Ids(credentials) :
      credentials[c].user_id = u /\ credentials[c].platform = p}

\* .from('credentials').eq('integration_id', i).eq('user_id', u)
CredentialsOf(i, u) ==
  {c \in Ids(credentials) :
      credentials[c].integration_id = i /\ credentials[c].user_id = u}

\* .from('credentials').eq('integration_id', i)
CredentialsByIntegration(i) ==
  {c \in Ids(credentials) : credentials[c].integration_id = i}

LogRow(u, p, action, status, level) ==
  [user_id |-> u, platform |-> p, action |-> action, status |-> status,
   log_level |-> level]

----------------------------------------------------------------------------
(* storeCredentials: supabase/functions/storeCredentials/index.ts          *)
(* (variant "index", Integration saved as pending) and                     *)
(* supabase/functions/storeCredentials.ts (variant "legacy", Integration   *)
(* saved as connected).                                                    *)

StoreVariants == {"index", "legacy"}

\* request bodies: every client sends a workspace for slack and none for
\* gmail, and a refresh token together with an expiry
Payloads ==
  {p \in [userId : Users, providerKey : Platforms, workspaceId : Workspaces,
          credentialType : {"oauth"}, accessToken : AccessTokens,
          refreshToken : RefreshTokens, expiresAt : Expiries] :
     /\ (p.providerKey = "gmail") = (p.workspaceId = NoWorkspace)
     /\ (p.refreshToken = 0) = (p.expiresAt = Absent)
     /\ (p.refreshToken = 0) = (p.accessToken = 2)}

NoPayload ==
  [userId |-> "u1", providerKey |-> "gmail", workspaceId |-> NoWorkspace,
   credentialType |-> "oauth", accessToken |-> 0, refreshToken |-> 0,
   expiresAt |-> Absent]

NoResponse == [success |-> FALSE, integrationId |-> 0, jobId |-> 0]

StoreIdle ==
  [pc |-> "idle", variant |-> "index", payload |-> NoPayload,
   integration |-> 0, response |-> NoResponse]

\* the row the integrations upsert writes
UpsertIntegrationRow(variant, p, old) ==
  IF variant = "index"
  THEN [old EXCEPT !.status = "pending", !.health_score = 100,
                   !.updated_at = now]
  ELSE [old EXCEPT !.status = "connected", !.updated_at = now]

NewIntegrationRow(p) ==
  [user_id |-> p.userId, workspace_id |-> p.workspaceId,
   provider_key |-> p.providerKey, status |-> "pending",
   health_score |-> 100, error_message |-> NoError, updated_at |-> now]

\* first awaited call: upsert of the integrations row, .select().single()
StoreUpsertIntegration(variant, p) ==
  /\ storeReq.pc = "idle"
  /\ ops < MaxOps
  /\ ops' = ops + 1
  /\ LET hit == IntegrationConflict(p.userId, p.providerKey, p.workspaceId)
         id  == IF hit = {} THEN Len(integrations) + 1
                ELSE CHOOSE i \in hit : TRUE
     IN /\ integrations' =
             IF hit = {}
             THEN Append(integrations,
                         UpsertIntegrationRow(variant, p, NewIntegrationRow(p)))
             ELSE [integrations EXCEPT
                     ![id] = UpsertIntegrationRow(variant, p, integrations[id])]
        /\ storeReq' = [pc |-> "credential", variant |-> variant,
                        payload |-> p, integration |-> id,
                        response |-> NoResponse]
  /\ UNCHANGED <<credentials, jobs, logs, revokeReq, refreshReq, sweep,
                 worker, queue, now, due,
                 oauth_states, callbackReq,
                 getReq, integration_webhooks, integration_events, webhookReq,
                 client, cryptoCall, pluginCall>>

\* the row the credentials upsert writes; keys that are undefined in the
\* request are not part of the statement and keep their stored value
UpsertCredentialRow(p, integrationId, old) ==
  [old EXCEPT
     !.credential_type = p.credentialType,
     !.access_token = encryptOrNull(p.accessToken),
     !.refresh_token = encryptOrNull(p.refreshToken),
     !.expires_at = IF p.expiresAt = Absent THEN old.expires_at
                    ELSE p.expiresAt,
     !.status = "connected",
     !.is_active = TRUE,
     !.integration_id = integrationId,
     !.last_used_at = now]

NewCredentialRow(p) ==
  [user_id |-> p.userId, platform |-> p.providerKey,
   credential_type |-> "manual", access_token |-> Null,
   refresh_token |-> Null, expires_at |-> Null, status |-> "connected",
   is_active |-> TRUE, integration_id |-> 0, connection_count |-> 0,
   last_used_at |-> now]

\* a plain insert in place of the upsert
UpsertCredentialInsertOnly(p, integrationId) ==
  Append(credentials, UpsertCredentialRow(p, integrationId, NewCredentialRow(p)))

UpsertCredential(p, integrationId) ==
  LET hit == CredentialConflict(p.userId, p.providerKey)
  IN IF hit = {}
     THEN Append(credentials,
                 UpsertCredentialRow(p, integrationId, NewCredentialRow(p)))
     ELSE LET c == CHOOSE c \in hit : TRUE
          IN [credentials EXCEPT
                ![c] = UpsertCredentialRow(p, integrationId, credentials[c])]

\* second part: credentials upsert, log row, bootstrap job row, response.
\* credOk = FALSE is a datastore error on the upsert (the handler throws);
\* jobOk = FALSE is a datastore error on the job insert (logged, ignored).
StoreUpsertCredential(credOk, jobOk) ==
  /\ storeReq.pc = "credential"
  /\ LET p  == storeReq.payload
         id == storeReq.integration
     IN IF credOk
        THEN /\ credentials' = UpsertCredential(p, id)
             /\ logs' = logs \cup
                  {LogRow(p.userId, p.providerKey, "store_credential",
                          "connected", "info")}
             /\ jobs' = IF jobOk
                        THEN Append(jobs, [integration_id |-> id,
                                           status |-> "pending"])
                        ELSE jobs
             /\ storeReq' = [storeReq EXCEPT
                  !.pc = "idle",
                  !.response = [success |-> TRUE, integrationId |-> id,
                                jobId |-> IF jobOk THEN Len(jobs) + 1 ELSE 0]]
        ELSE /\ storeReq' = [storeReq EXCEPT !.pc = "idle",
                                             !.response = NoResponse]
             /\ UNCHANGED <<credentials, logs, jobs>>
  /\ UNCHANGED <<integrations, revokeReq, refreshReq, sweep, worker, queue,
                 now, ops, due,
                 oauth_states, callbackReq,
                 getReq, integration_webhooks, integration_events, webhookReq,
                 client, cryptoCall, pluginCall>>

----------------------------------------------------------------------------
(* revokeToken.  Variant "byIntegration" is the handler that takes         *)
(* {integrationId, userId}, calls the provider plugin and updates both     *)
(* rows; variant "byPlatform" is supabase/functions/revokeToken/index.ts,  *)
(* which takes {userId, platform}.                                         *)

\* what the awaited provider.revokeAccess call does
ProviderOutcomes == {"ok", "failed", "threw"}

RevokeIdle ==
  [pc |-> "idle", variant |-> "byIntegration", integration |-> 0,
   credential |-> 0, provider |-> "ok", success |-> FALSE]

\* reads of the integration row and of its credential (.single()), then the
\* provider call inside its own try/catch: every outcome continues
RevokeRead(i, u, outcome) ==
  /\ revokeReq.pc = "idle"
  /\ ops < MaxOps
  /\ i \in Ids(integrations)
  /\ integrations[i].user_id = u
  /\ Cardinality(CredentialsOf(i, u)) = 1
  /\ LET c == CHOOSE c \in CredentialsOf(i, u) : TRUE
     IN /\ decryptOrNull(credentials[c].access_token) # 0
        /\ decryptOrNull(credentials[c].refresh_token) # Malformed
        /\ revokeReq' = [pc |-> "credential", variant |-> "byIntegration",
                         integration |-> i, credential |-> c,
                         provider |-> outcome, success |-> FALSE]
  /\ ops' = ops + 1
  /\ UNCHANGED <<integrations, credentials, jobs, logs, storeReq, refreshReq,
                 sweep, worker, queue, now, due,
                 oauth_states, callbackReq,
                 getReq, integration_webhooks, integration_events, webhookReq,
                 client, cryptoCall, pluginCall>>

DeactivatedRow(old) ==
  [old EXCEPT !.is_active = FALSE, !.status = "disconnected"]

\* .from("credentials").update({is_active: false, status: "disconnected"})
RevokeUpdateCredential ==
  /\ revokeReq.pc = "credential"
  /\ revokeReq.variant = "byIntegration"
  /\ credentials' = [credentials EXCEPT
       ![revokeReq.credential] = DeactivatedRow(@)]
  /\ revokeReq' = [revokeReq EXCEPT !.pc = "integration"]
  /\ UNCHANGED <<integrations, jobs, logs, storeReq, refreshReq, sweep,
                 worker, queue, now, ops, due,
                 oauth_states, callbackReq,
                 getReq, integration_webhooks, integration_events, webhookReq,
                 client, cryptoCall, pluginCall>>

\* .from("integrations").update({status: "disconnected"}), log row, response
RevokeUpdateIntegration ==
  /\ revokeReq.pc = "integration"
  /\ LET i == revokeReq.integration
     IN /\ integrations' = [integrations EXCEPT
             ![i].status = "disconnected", ![i].updated_at = now]
        /\ logs' = logs \cup
             {LogRow(integrations[i].user_id, integrations[i].provider_key,
                     "revoke_token", "disconnected", "info")}
  /\ revokeReq' = [revokeReq EXCEPT !.pc = "idle", !.success = TRUE]
  /\ UNCHANGED <<credentials, jobs, storeReq, refreshReq, sweep, worker,
                 queue, now, ops, due,
                 oauth_states, callbackReq,
                 getReq, integration_webhooks, integration_events, webhookReq,
                 client, cryptoCall, pluginCall>>

\* the handler up to `await provider.revokeAccess(...)`: the request to the
\* provider is out and the handler waits for the promise to settle
RevokeCall(i, u) ==
  /\ revokeReq.pc = "idle"
  /\ ops < MaxOps
  /\ i \in Ids(integrations)
  /\ integrations[i].user_id = u
  /\ Cardinality(CredentialsOf(i, u)) = 1
  /\ LET c == CHOOSE c \in CredentialsOf(i, u) : TRUE
     IN /\ decryptOrNull(credentials[c].access_token) \notin {0, Malformed}
        /\ decryptOrNull(credentials[c].refresh_token) # Malformed
        /\ revokeReq' = [pc |-> "provider", variant |-> "byIntegration",
                         integration |-> i, credential |-> c,
                         provider |-> "ok", success |-> FALSE]
  /\ ops' = ops + 1
  /\ UNCHANGED <<integrations, credentials, jobs, logs, storeReq, refreshReq,
                 sweep, worker, queue, now, due,
                 oauth_states, callbackReq,
                 getReq, integration_webhooks, integration_events, webhookReq,
                 client, cryptoCall, pluginCall>>

\* the provider answers, or the connection fails: the promise settles and the
\* handler goes on to the local cleanup.  Nothing in the handler or in the
\* plugin's fetch settles the promise otherwise (no timer, no abort signal).
RevokeProviderSettles(outcome) ==
  /\ revokeReq.pc = "provider"
  /\ revokeReq' = [revokeReq EXCEPT !.pc = "credential",
                                    !.provider = outcome]
  /\ UNCHANGED <<integrations, credentials, jobs, logs, storeReq, refreshReq,
                 sweep, worker, queue, now, ops, due,
                 oauth_states, callbackReq,
                 getReq, integration_webhooks, integration_events, webhookReq,
                 client, cryptoCall, pluginCall>>

\* revokeToken/index.ts: read of the active credential of (userId, platform)
RevokeByPlatformRead(u, p) ==
  /\ revokeReq.pc = "idle"
  /\ ops < MaxOps
  /\ \E c \in CredentialConflict(u, p) :
        /\ credentials[c].is_active
        /\ revokeReq' = [pc |-> "credential", variant |-> "byPlatform",
                         integration |-> credentials[c].integration_id,
                         credential |-> c, provider |-> "ok",
                         success |-> FALSE]
  /\ ops' = ops + 1
  /\ UNCHANGED <<integrations, credentials, jobs, logs, storeReq, refreshReq,
                 sweep, worker, queue, now, due,
                 oauth_states, callbackReq,
                 getReq, integration_webhooks, integration_events, webhookReq,
                 client, cryptoCall, pluginCall>>

\* revokeToken/index.ts: update of the credential row, log row, response;
\* the integrations table is not written
RevokeByPlatformUpdate ==
  /\ revokeReq.pc = "credential"
  /\ revokeReq.variant = "byPlatform"
  /\ LET c == revokeReq.credential
     IN /\ credentials' = [credentials EXCEPT ![c] = DeactivatedRow(@)]
        /\ logs' = logs \cup
             {LogRow(credentials[c].user_id, credentials[c].platform,
                     "revoke_token", "disconnected", "info")}
  /\ revokeReq' = [revokeReq EXCEPT !.pc = "idle", !.success = TRUE]
  /\ UNCHANGED <<integrations, jobs, storeReq, refreshReq, sweep, worker,
                 queue, now, ops, due,
                 oauth_states, callbackReq,
                 getReq, integration_webhooks, integration_events, webhookReq,
                 client, cryptoCall, pluginCall>>

----------------------------------------------------------------------------
(* refreshToken (refresh-one): the handler that takes                      *)
(* {integrationId, userId} and calls the provider's token endpoint.        *)

RefreshSlots == {1, 2}

\* providers the handler knows a token endpoint for
RefreshProviders == {"google", "gmail", "instagram"}

\* expires_in of a token response, in minutes
ProviderExpiresIn == 60

\* bodies of an ok token response; refresh_token 0: the provider did not
\* send a new refresh token
TokenResponses ==
  {[access_token |-> 5, refresh_token |-> 0],
   [access_token |-> 6, refresh_token |-> 7]}

NoTokenData == [access_token |-> 0, refresh_token |-> 0]

RefreshIdle ==
  [pc |-> "idle", integration |-> 0, credential |-> 0,
   read_access |-> Null, read_refresh |-> Null, read_active |-> FALSE,
   tokenData |-> NoTokenData, success |-> FALSE]

\* the refresh can be attempted: both rows are found, the refresh token
\* decrypts to a non-empty string and the provider has a token endpoint
RefreshAccepted(i, u) ==
  /\ i \in Ids(integrations)
  /\ integrations[i].user_id = u
  /\ Cardinality(CredentialsOf(i, u)) = 1
  /\ LET c == CHOOSE c \in CredentialsOf(i, u) : TRUE
     IN decryptOrNull(credentials[c].refresh_token) \notin {0, Malformed}
  /\ integrations[i].provider_key \in RefreshProviders

\* reads of both rows and the awaited fetch of the token endpoint, which
\* answers ok with tokenData
RefreshRead(s, i, u, tokenData) ==
  /\ refreshReq[s].pc = "idle"
  /\ ops < MaxOps
  /\ RefreshAccepted(i, u)
  /\ LET c == CHOOSE c \in CredentialsOf(i, u) : TRUE
     IN refreshReq' = [refreshReq EXCEPT ![s] =
          [pc |-> "credential", integration |-> i, credential |-> c,
           read_access |-> credentials[c].access_token,
           read_refresh |-> credentials[c].refresh_token,
           read_active |-> credentials[c].is_active,
           tokenData |-> tokenData, success |-> FALSE]]
  /\ ops' = ops + 1
  /\ UNCHANGED <<integrations, credentials, jobs, logs, storeReq, revokeReq,
                 sweep, worker, queue, now, due,
                 oauth_states, callbackReq,
                 getReq, integration_webhooks, integration_events, webhookReq,
                 client, cryptoCall, pluginCall>>

\* any throw inside the try block: the catch block reads the request body a
\* second time, which rejects, so nothing is written; the response is a 500
RefreshFail(s, i, u) ==
  /\ refreshReq[s].pc = "idle"
  /\ ops < MaxOps
  /\ i \in Ids(integrations)
  /\ refreshReq' = [refreshReq EXCEPT ![s] =
       [RefreshIdle EXCEPT !.integration = i]]
  /\ ops' = ops + 1
  /\ UNCHANGED <<integrations, credentials, jobs, logs, storeReq, revokeReq,
                 sweep, worker, queue, now, due,
                 oauth_states, callbackReq,
                 getReq, integration_webhooks, integration_events, webhookReq,
                 client, cryptoCall, pluginCall>>

RefreshedRow(old, r) ==
  [old EXCEPT
     !.access_token = encryptOrNull(r.tokenData.access_token),
     !.refresh_token = IF r.tokenData.refresh_token # 0
                       THEN encrypt(r.tokenData.refresh_token)
                       ELSE r.read_refresh,
     !.expires_at = now + ProviderExpiresIn,
     !.status = "connected"]

\* .from("credentials").update({...tokens, status: "connected"}).eq("id", id)
RefreshUpdateCredential(s) ==
  /\ refreshReq[s].pc = "credential"
  /\ credentials' = [credentials EXCEPT
       ![refreshReq[s].credential] = RefreshedRow(@, refreshReq[s])]
  /\ refreshReq' = [refreshReq EXCEPT ![s].pc = "integration"]
  /\ UNCHANGED <<integrations, jobs, logs, storeReq, revokeReq, sweep, worker,
                 queue, now, ops, due,
                 oauth_states, callbackReq,
                 getReq, integration_webhooks, integration_events, webhookReq,
                 client, cryptoCall, pluginCall>>

\* .from("integrations").update({status: "connected", error_message: null}),
\* log row, response
RefreshUpdateIntegration(s) ==
  /\ refreshReq[s].pc = "integration"
  /\ LET i == refreshReq[s].integration
     IN /\ integrations' = [integrations EXCEPT
             ![i].status = "connected", ![i].error_message = NoError,
             ![i].updated_at = now]
        /\ logs' = logs \cup
             {LogRow(integrations[i].user_id, integrations[i].provider_key,
                     "refresh_token", "connected", "info")}
  /\ refreshReq' = [refreshReq EXCEPT ![s].pc = "idle", ![s].success = TRUE]
  /\ UNCHANGED <<credentials, jobs, storeReq, revokeReq, sweep, worker, queue,
                 now, ops, due,
                 oauth_states, callbackReq,
                 getReq, integration_webhooks, integration_events, webhookReq,
                 client, cryptoCall, pluginCall>>

----------------------------------------------------------------------------
(* Bootstrap workers.  Kind "poll" is the script that selects the pending  *)
(* rows of integration_sync_jobs every 30 seconds (processBootstrapJobs /  *)
(* processJob); kind "bull" is the BullMQ Worker on the queue              *)
(* 'integration-bootstrap'.  Several worker processes may run.             *)

WorkerSlots == {1, 2}

\* defaultJobOptions.attempts of the queue
QueueAttempts == 3

\* what the awaited provider.bootstrap call does
BootstrapOutcomes == {"ok", "failed", "threw"}

WorkerIdle ==
  [pc |-> "idle", kind |-> "poll", todo |-> <<>>, job |-> 0,
   integration |-> 0, attemptsMade |-> 0, error |-> NoError]

\* a select of the jobs already taken instead of the pending ones
RunningJobs ==
  SelectSeq([j \in 1..Len(jobs) |-> j], LAMBDA j : jobs[j].status = "running")

\* processBootstrapJobs: .eq('status', 'pending').eq('job_type', 'bootstrap')
\* .order('created_at').limit(10)
PendingJobs ==
  SelectSeq([j \in 1..Len(jobs) |-> j], LAMBDA j : jobs[j].status = "pending")

\* queueBootstrapJob(integrationId, jobId), called for a job row that a save
\* created
QueueBootstrapJob(j) ==
  /\ ops < MaxOps
  /\ j \in Ids(jobs)
  /\ jobs[j].status = "pending"
  /\ \A k \in 1..Len(queue) : queue[k].jobId # j
  /\ \A w \in WorkerSlots : ~(worker[w].kind = "bull" /\ worker[w].job = j)
  /\ queue' = Append(queue, [integrationId |-> jobs[j].integration_id,
                             jobId |-> j, attemptsMade |-> 0])
  /\ ops' = ops + 1
  /\ UNCHANGED <<integrations, credentials, jobs, logs, storeReq, revokeReq,
                 refreshReq, sweep, worker, now, due,
                 oauth_states, callbackReq,
                 getReq, integration_webhooks, integration_events, webhookReq,
                 client, cryptoCall, pluginCall>>

\* processBootstrapJobs up to the loop: the pending jobs as selected now
PollJobs(w) ==
  /\ worker[w].pc = "idle"
  /\ ops < MaxOps
  /\ PendingJobs # <<>>
  /\ worker' = [worker EXCEPT ![w] =
       [WorkerIdle EXCEPT !.pc = "next", !.kind = "poll",
                          !.todo = PendingJobs]]
  /\ ops' = ops + 1
  /\ UNCHANGED <<integrations, credentials, jobs, logs, storeReq, revokeReq,
                 refreshReq, sweep, queue, now, due,
                 oauth_states, callbackReq,
                 getReq, integration_webhooks, integration_events, webhookReq,
                 client, cryptoCall, pluginCall>>

\* the same select of a worker that runs it every 30 seconds for as long as
\* the process lives (setInterval); it returns at once without pending jobs
ProcessBootstrapJobs(w) ==
  /\ worker[w].pc = "idle"
  /\ PendingJobs # <<>>
  /\ worker' = [worker EXCEPT ![w] =
       [WorkerIdle EXCEPT !.pc = "next", !.kind = "poll",
                          !.todo = PendingJobs]]
  /\ UNCHANGED <<integrations, credentials, jobs, logs, storeReq, revokeReq,
                 refreshReq, sweep, queue, now, ops, due,
                 oauth_states, callbackReq,
                 getReq, integration_webhooks, integration_events, webhookReq,
                 client, cryptoCall, pluginCall>>

\* the error thrown before the provider call, NoError if none: the credential
\* of the integration is read with .single(), and an access token is needed
LoadError(i) ==
  IF Cardinality(CredentialsByIntegration(i)) # 1
  THEN "Credentials not found"
  ELSE LET c == CHOOSE c \in CredentialsByIntegration(i) : TRUE
       IN IF decryptOrNull(credentials[c].access_token) = 0
          THEN "No access token or API key available"
          ELSE NoError

\* the error of the provider call, NoError if it succeeds
OutcomeError(outcome) ==
  IF outcome = "ok" THEN NoError ELSE "Bootstrap failed"

\* start of the processor: the job row is set to running without a condition
\* on its status, then the rows are loaded and the provider call is issued
StartedWorker(old, j, loadError, outcome) ==
  [old EXCEPT
     !.job = j,
     !.integration = jobs[j].integration_id,
     !.pc = IF loadError # NoError THEN "fail_integration"
            ELSE "bootstrapping",
     !.error = IF loadError # NoError THEN loadError
               ELSE OutcomeError(outcome)]

\* processJob of the polling worker on the next job of its list;
\* simulateBootstrap always succeeds
ProcessJob(w) ==
  /\ worker[w].pc = "next"
  /\ worker[w].kind = "poll"
  /\ LET j == Head(worker[w].todo)
     IN /\ jobs' = [jobs EXCEPT ![j].status = "running"]
        /\ worker' = [worker EXCEPT ![w] =
             StartedWorker([@ EXCEPT !.todo = Tail(@)], j,
                           LoadError(jobs[j].integration_id), "ok")]
  /\ UNCHANGED <<integrations, credentials, logs, storeReq, revokeReq,
                 refreshReq, sweep, queue, now, ops, due,
                 oauth_states, callbackReq,
                 getReq, integration_webhooks, integration_events, webhookReq,
                 client, cryptoCall, pluginCall>>

\* the BullMQ processor on the job at the head of the queue
BullProcess(w, outcome) ==
  /\ worker[w].pc = "idle"
  /\ queue # <<>>
  /\ LET q == Head(queue)
     IN /\ jobs' = [jobs EXCEPT ![q.jobId].status = "running"]
        /\ worker' = [worker EXCEPT ![w] =
             StartedWorker([WorkerIdle EXCEPT !.kind = "bull",
                              !.attemptsMade = q.attemptsMade],
                           q.jobId, LoadError(q.integrationId), outcome)]
  /\ queue' = Tail(queue)
  /\ UNCHANGED <<integrations, credentials, logs, storeReq, revokeReq,
                 refreshReq, sweep, now, ops, due,
                 oauth_states, callbackReq,
                 getReq, integration_webhooks, integration_events, webhookReq,
                 client, cryptoCall, pluginCall>>

\* the provider call has returned
BootstrapReturns(w) ==
  /\ worker[w].pc = "bootstrapping"
  /\ worker' = [worker EXCEPT ![w].pc =
       IF worker[w].error = NoError THEN "integration"
       ELSE "fail_integration"]
  /\ UNCHANGED <<integrations, credentials, jobs, logs, storeReq, revokeReq,
                 refreshReq, sweep, queue, now, ops, due,
                 oauth_states, callbackReq,
                 getReq, integration_webhooks, integration_events, webhookReq,
                 client, cryptoCall, pluginCall>>

\* the success update without error_message: null
BootstrappedRowKeepsError(old) ==
  [old EXCEPT !.status = "connected", !.health_score = 100,
              !.updated_at = now]

BootstrappedRow(old) ==
  [old EXCEPT !.status = "connected", !.health_score = 100,
              !.error_message = NoError, !.updated_at = now]

\* columns of integration_webhooks with a unique index, besides id
WebhookUniqueColumns == {}

\* .from('integration_webhooks').upsert(row, {onConflict}): ON CONFLICT needs
\* a unique index on the column; without one the statement is rejected and
\* the table is as before (the error of the call is not looked at)
UpsertWebhook(table, row, onConflict) ==
  IF onConflict \notin WebhookUniqueColumns
  THEN table
  ELSE IF \E r \in Ids(table) : table[r].integration_id = row.integration_id
  THEN [r \in Ids(table) |->
          IF table[r].integration_id = row.integration_id THEN row
          ELSE table[r]]
  ELSE Append(table, row)

\* success path: the webhook id of the bootstrap result (one per run, here
\* the job's id) is upserted into integration_webhooks, then
\* .from('integrations').update({status: 'connected', ...})
BootstrapUpdateIntegration(w) ==
  /\ worker[w].pc = "integration"
  /\ integration_webhooks' =
       UpsertWebhook(integration_webhooks,
                     [integration_id |-> worker[w].integration,
                      webhook_id |-> worker[w].job],
                     "integration_id")
  /\ integrations' = [integrations EXCEPT
       ![worker[w].integration] = BootstrappedRow(@)]
  /\ worker' = [worker EXCEPT ![w].pc = "complete"]
  /\ UNCHANGED <<credentials, jobs, logs, storeReq, revokeReq, refreshReq,
                 sweep, queue, now, ops, due,
                 oauth_states, callbackReq,
                 getReq, integration_events, webhookReq,
                 client, cryptoCall, pluginCall>>

\* where a worker goes after a job: the polling worker to the next job of
\* its list, the BullMQ worker back to the queue
AfterJob(old) ==
  [old EXCEPT !.pc = IF old.kind = "poll" /\ old.todo # <<>> THEN "next"
                     ELSE "idle"]

\* success path: job row completed, log row
BootstrapCompleteJob(w) ==
  /\ worker[w].pc = "complete"
  /\ LET i == worker[w].integration
     IN logs' = logs \cup
          {LogRow(integrations[i].user_id, integrations[i].provider_key,
                  "bootstrap", "connected", "info")}
  /\ jobs' = [jobs EXCEPT ![worker[w].job].status = "completed"]
  /\ worker' = [worker EXCEPT ![w] = AfterJob(@)]
  /\ UNCHANGED <<integrations, credentials, storeReq, revokeReq, refreshReq,
                 sweep, queue, now, ops, due,
                 oauth_states, callbackReq,
                 getReq, integration_webhooks, integration_events, webhookReq,
                 client, cryptoCall, pluginCall>>

\* catch block: .from('integrations').update({status: 'error', error_message})
BootstrapFailIntegration(w) ==
  /\ worker[w].pc = "fail_integration"
  /\ integrations' = [integrations EXCEPT
       ![worker[w].integration].status = "error",
       ![worker[w].integration].error_message = worker[w].error,
       ![worker[w].integration].updated_at = now]
  /\ worker' = [worker EXCEPT ![w].pc = "fail_job"]
  /\ UNCHANGED <<credentials, jobs, logs, storeReq, revokeReq, refreshReq,
                 sweep, queue, now, ops, due,
                 oauth_states, callbackReq,
                 getReq, integration_webhooks, integration_events, webhookReq,
                 client, cryptoCall, pluginCall>>

\* catch block: job row failed, log row; the BullMQ processor rethrows, and
\* the queue runs the job again while attempts are left.  The polling
\* worker's log row has no user_id (job.user_id is undefined) and is
\* rejected by the NOT NULL column.
BootstrapFailJob(w) ==
  /\ worker[w].pc = "fail_job"
  /\ jobs' = [jobs EXCEPT ![worker[w].job].status = "failed"]
  /\ LET i == worker[w].integration
     IN logs' = IF worker[w].kind = "bull"
                THEN logs \cup
                  {LogRow(integrations[i].user_id,
                          integrations[i].provider_key,
                          "bootstrap", "error", "info")}
                ELSE logs
  /\ queue' = IF worker[w].kind = "bull"
                 /\ worker[w].attemptsMade + 1 < QueueAttempts
              THEN Append(queue, [integrationId |-> worker[w].integration,
                                  jobId |-> worker[w].job,
                                  attemptsMade |-> worker[w].attemptsMade + 1])
              ELSE queue
  /\ worker' = [worker EXCEPT ![w] = AfterJob(@)]
  /\ UNCHANGED <<integrations, credentials, storeReq, revokeReq, refreshReq,
                 sweep, now, ops, due,
                 oauth_states, callbackReq,
                 getReq, integration_webhooks, integration_events, webhookReq,
                 client, cryptoCall, pluginCall>>

----------------------------------------------------------------------------
(* Refresh-due decision of the two healthCheck sweeps.  Times are minutes. *)

\* 60 * 60 * 1000 ms
RefreshThreshold == 60

\* healthCheck/index.ts: credential_type === "oauth" && expires_at, then
\* expiresAt.getTime() - now.getTime() < 60 * 60 * 1000
needsRefreshIndex(credential_type, expires_at, t) ==
  /\ credential_type = "oauth"
  /\ expires_at # Null
  /\ expires_at - t < RefreshThreshold

\* the cron sweep: needsRefresh = expiresAt && expiresAt < now + 1 hour
needsRefresh(expires_at, t) ==
  /\ expires_at # Null
  /\ expires_at < t + RefreshThreshold

\* the cron sweep refreshes `if (needsRefresh && credential.refresh_token)`
sweepRefreshes(expires_at, refresh_token, t) ==
  needsRefresh(expires_at, t) /\ refresh_token # Null

CredentialTypes == {"oauth", "api_key", "manual"}

\* latest wall-clock time at which the decision is taken
MaxDueNow == 2

DueInputs ==
  [credential_type : CredentialTypes,
   expires_at : {Null} \cup (0..(MaxDueNow + RefreshThreshold + 2)),
   refresh_token : {Null, encrypt(3)},
   t : 0..MaxDueNow]

NoDue ==
  [pc |-> "none", credential_type |-> "manual", expires_at |-> Null,
   refresh_token |-> Null, t |-> 0, index |-> FALSE, cron |-> FALSE,
   cronRefreshes |-> FALSE]

\* both sweeps meet the same credential at the same time
DecideDue ==
  /\ due.pc = "input"
  /\ due' = [due EXCEPT
       !.pc = "decided",
       !.index = needsRefreshIndex(due.credential_type, due.expires_at, due.t),
       !.cron = needsRefresh(due.expires_at, due.t),
       !.cronRefreshes =
          sweepRefreshes(due.expires_at, due.refresh_token, due.t)]
  /\ UNCHANGED <<integrations, credentials, jobs, logs, storeReq, revokeReq,
                 refreshReq, sweep, worker, queue, now, ops, oauth_states,
                 callbackReq,
                 getReq, integration_webhooks, integration_events, webhookReq,
                 client, cryptoCall, pluginCall>>

----------------------------------------------------------------------------
(* healthCheck sweeps.  Variant "cron" is the hourly function that selects *)
(* the integrations together with their credentials and simulates the      *)
(* refresh; variant "index" is supabase/functions/healthCheck/index.ts,    *)
(* which reads each credential inside the loop.  Both order the rows by    *)
(* updated_at, a column the model does not keep: the loop takes the        *)
(* selected rows in any order.                                             *)

SweepVariants == {"cron", "index"}

\* sweeps started in one behaviour
MaxSweeps == 1

\* `new_access_token_${Date.now()}`, `new_refresh_token_${Date.now()}`
SimulatedAccessToken == 8
SimulatedRefreshToken == 9
\* 24 * 60 * 60 * 1000 ms, in minutes
SimulatedExpiresIn == 1440

\* provider registry of integrations-core
Providers == {"gmail", "instagram", "slack"}

getProvider(providerKey) ==
  IF providerKey \in Providers THEN providerKey ELSE "null"

\* providers whose <KEY>_CLIENT_ID and <KEY>_CLIENT_SECRET are set
ClientConfigured == {"gmail", "slack"}

MathMax(a, b) == IF a >= b THEN a ELSE b

\* the penalty with the sign reversed
healthAfterFailureRaised(health_score) ==
  MathMax(0, (IF health_score \in {Absent, Null, 0} THEN 100
              ELSE health_score) + 10)

\* Math.max(0, (integration.health_score || 100) - 10)
healthAfterFailure(health_score) ==
  MathMax(0, (IF health_score \in {Absent, Null, 0} THEN 100
              ELSE health_score) - 10)

\* the cron sweep counts; the index sweep pushes one entry per integration,
\* counted here by its status: error, pending (refreshed), connected (skipped)
NoResults == [total |-> 0, refreshed |-> 0, errors |-> 0, skipped |-> 0]

\* what the loop holds of one integration: the cron sweep selects the
\* credential columns with the integration and does not select health_score;
\* the index sweep selects the whole integration row and reads the credential
\* inside the loop
NoItem ==
  [integration |-> 0, credential |-> 0, expires_at |-> Null,
   refresh_token |-> Null, health_score |-> Absent]

\* selected: the integrations of the select; failed: those whose processing
\* ended in an error
SweepIdle ==
  [pc |-> "idle", variant |-> "cron", todo |-> {}, item |-> NoItem,
   error |-> NoError, results |-> NoResults, runs |-> 0, selected |-> {},
   failed |-> {}]

\* .in('status', ['connected', 'error'])
SweepSelected ==
  {i \in Ids(integrations) : integrations[i].status \in {"connected", "error"}}

\* the cron select: credentials!inner(...) drops integrations without a
\* credential row; the loop uses integration.credentials[0]
CronItems ==
  UNION {{[integration |-> i, credential |-> c,
           expires_at |-> credentials[c].expires_at,
           refresh_token |-> credentials[c].refresh_token,
           health_score |-> Absent] : c \in CredentialsByIntegration(i)} :
         i \in SweepSelected}

\* the index select: .select("*")
IndexItems ==
  {[NoItem EXCEPT !.integration = i,
                  !.health_score = integrations[i].health_score] :
     i \in SweepSelected}

\* .limit(100) of the cron select
BatchLimit == 100

\* the batch size of the cron select scaled down, so that there can be more
\* selectable integrations than one batch holds
SmallBatch == 1

\* the integrations the cron select can return before order and limit
CronSelected == {x.integration : x \in CronItems}

\* .order('updated_at', {ascending: true}).limit(limit): the limit oldest
\* rows; rows of equal updated_at come in an order the database chooses
OldestFirst(rows, limit) ==
  {S \in SUBSET rows :
     /\ Cardinality(S) = IF Cardinality(rows) < limit THEN Cardinality(rows)
                         ELSE limit
     /\ \A a \in S, b \in rows \ S :
          integrations[a].updated_at <= integrations[b].updated_at}

\* the handler up to the loop; an empty cron select returns at once; the
\* index select has no limit
SweepStartLimited(variant, limit) ==
  /\ sweep.pc = "idle"
  /\ \E batch \in IF variant = "cron" THEN OldestFirst(CronSelected, limit)
                   ELSE {SweepSelected} :
       LET items == IF variant = "cron"
                    THEN {x \in CronItems : x.integration \in batch}
                    ELSE IndexItems
       IN sweep' = [pc |-> IF items = {} THEN "idle" ELSE "item",
                    variant |-> variant, todo |-> items, item |-> NoItem,
                    error |-> NoError,
                    results |-> [NoResults EXCEPT
                                   !.total = Cardinality(items)],
                    runs |-> IF sweep.runs < MaxSweeps THEN sweep.runs + 1
                             ELSE sweep.runs,
                    selected |-> {x.integration : x \in items},
                    failed |-> {}]
  /\ UNCHANGED <<integrations, credentials, jobs, logs, storeReq, revokeReq,
                 refreshReq, worker, queue, now, ops, due, oauth_states,
                 callbackReq,
                 getReq, integration_webhooks, integration_events, webhookReq,
                 client, cryptoCall, pluginCall>>

SweepStart(variant) == SweepStartLimited(variant, BatchLimit)

\* the for loop goes on to the next selected row, or the handler responds
AfterItem(s) == [s EXCEPT !.pc = IF s.todo = {} THEN "idle" ELSE "item"]

\* a catch block that ends the loop
AfterCatchAborts(s) == [s EXCEPT !.pc = "idle", !.todo = {}]

\* the per-item catch block falls through to the next iteration
AfterCatch(s) == AfterItem(s)

\* the error the cron sweep throws before the integration update, NoError if
\* none; dbOk = FALSE is a datastore error on the credentials update
CronItemError(x, dbOk) ==
  LET refreshToken == decryptOrNull(x.refresh_token)
  IN IF refreshToken = Malformed THEN "Malformed UTF-8 data"
     ELSE IF refreshToken = 0 THEN "No refresh token available"
     ELSE IF ~dbOk THEN "Failed to update credentials"
     ELSE NoError

\* .from('credentials').update({...simulated tokens, status: 'connected'})
SweepRefreshedRow(old) ==
  [old EXCEPT
     !.access_token = encrypt(SimulatedAccessToken),
     !.refresh_token = encrypt(SimulatedRefreshToken),
     !.expires_at = now + SimulatedExpiresIn,
     !.status = "connected"]

\* one iteration of the cron loop up to the credentials update; a datastore
\* error counts as an invocation of the budget
SweepCronItem(x, dbOk) ==
  /\ sweep.pc = "item"
  /\ sweep.variant = "cron"
  /\ x \in sweep.todo
  /\ dbOk \/ ops < MaxOps
  /\ ops' = IF dbOk THEN ops ELSE ops + 1
  /\ LET s == [sweep EXCEPT !.todo = @ \ {x}, !.item = x, !.error = NoError]
         err == CronItemError(x, dbOk)
     IN IF sweepRefreshes(x.expires_at, x.refresh_token, now)
        THEN IF err = NoError
             THEN /\ credentials' = [credentials EXCEPT
                       ![x.credential] = SweepRefreshedRow(@)]
                  /\ sweep' = [s EXCEPT !.pc = "integration"]
             ELSE /\ sweep' = [s EXCEPT !.pc = "catch", !.error = err]
                  /\ UNCHANGED credentials
        ELSE /\ sweep' = AfterItem([s EXCEPT !.results.skipped = @ + 1])
             /\ UNCHANGED credentials
  /\ UNCHANGED <<integrations, jobs, logs, storeReq, revokeReq, refreshReq,
                 worker, queue, now, due, oauth_states, callbackReq,
                 getReq, integration_webhooks, integration_events, webhookReq,
                 client, cryptoCall, pluginCall>>

\* cron success: .from('integrations').update({status: 'connected',
\* health_score: 100, error_message: null}), log row, results.refreshed++
SweepUpdateIntegration ==
  /\ sweep.pc = "integration"
  /\ LET i == sweep.item.integration
     IN /\ integrations' = [integrations EXCEPT
             ![i].status = "connected", ![i].health_score = 100,
             ![i].error_message = NoError, ![i].updated_at = now]
        /\ logs' = logs \cup
             {LogRow(integrations[i].user_id, integrations[i].provider_key,
                     "auto_refresh_token", "connected", "info")}
  /\ sweep' = AfterItem([sweep EXCEPT !.results.refreshed = @ + 1])
  /\ UNCHANGED <<credentials, jobs, storeReq, revokeReq, refreshReq, worker,
                 queue, now, ops, due, oauth_states, callbackReq,
                 getReq, integration_webhooks, integration_events, webhookReq,
                 client, cryptoCall, pluginCall>>

\* the error the index sweep throws for a credential that is due, NoError if
\* none
IndexItemError(i, c) ==
  LET refreshToken == decryptOrNull(credentials[c].refresh_token)
  IN IF getProvider(integrations[i].provider_key) = "null"
     THEN "Provider not found"
     ELSE IF refreshToken = Malformed THEN "Malformed UTF-8 data"
     ELSE IF refreshToken = 0 THEN "Missing refresh token"
     ELSE IF integrations[i].provider_key \notin ClientConfigured
     THEN "Missing client credentials"
     ELSE NoError

\* one iteration of the index loop: the active credential of the integration
\* is read with .single(); readOk = FALSE is a datastore error on that read.
\* A due credential gets the log row "Token refresh initiated by health
\* check" and an entry with status pending; nothing else is written.  A
\* datastore error counts as an invocation of the budget.
SweepIndexItem(x, readOk) ==
  /\ sweep.pc = "item"
  /\ sweep.variant = "index"
  /\ x \in sweep.todo
  /\ readOk \/ ops < MaxOps
  /\ ops' = IF readOk THEN ops ELSE ops + 1
  /\ LET i == x.integration
         found == {c \in CredentialsByIntegration(i) :
                     credentials[c].is_active}
         s == [sweep EXCEPT !.todo = @ \ {x}, !.item = x, !.error = NoError]
     IN IF ~readOk \/ Cardinality(found) # 1
        THEN /\ logs' = logs \cup
                  {LogRow(integrations[i].user_id,
                          integrations[i].provider_key,
                          "health_check", "error", "error")}
             /\ integrations' = [integrations EXCEPT
                  ![i].status = "error",
                  ![i].error_message = "Credential not found",
                  ![i].updated_at = now]
             /\ sweep' = AfterItem([s EXCEPT
                  !.error = "Credential not found",
                  !.results.errors = @ + 1,
                  !.failed = @ \cup {i}])
        ELSE LET c == CHOOSE c \in found : TRUE
                 met == [x EXCEPT
                           !.credential = c,
                           !.expires_at = credentials[c].expires_at,
                           !.refresh_token = credentials[c].refresh_token]
                 t == [s EXCEPT !.item = met]
             IN IF needsRefreshIndex(credentials[c].credential_type,
                                     credentials[c].expires_at, now)
                THEN IF IndexItemError(i, c) = NoError
                     THEN /\ logs' = logs \cup
                               {LogRow(integrations[i].user_id,
                                       integrations[i].provider_key,
                                       "token_refresh", "pending", "info")}
                          /\ sweep' = AfterItem([t EXCEPT
                               !.results.refreshed = @ + 1])
                          /\ UNCHANGED integrations
                     ELSE /\ sweep' = [t EXCEPT
                               !.pc = "catch",
                               !.error = IndexItemError(i, c)]
                          /\ UNCHANGED <<integrations, logs>>
                ELSE /\ sweep' = AfterItem([t EXCEPT
                          !.results.skipped = @ + 1])
                     /\ UNCHANGED <<integrations, logs>>
  /\ UNCHANGED <<credentials, jobs, storeReq, revokeReq, refreshReq, worker,
                 queue, now, due, oauth_states, callbackReq,
                 getReq, integration_webhooks, integration_events, webhookReq,
                 client, cryptoCall, pluginCall>>

\* the row the per-item catch block writes: the cron sweep lowers the health
\* score it holds of the integration, the index sweep leaves the score alone
SweepFailedRow(variant, old, health_score, message) ==
  IF variant = "cron"
  THEN [old EXCEPT !.status = "error",
                   !.health_score = healthAfterFailure(health_score),
                   !.error_message = message, !.updated_at = now]
  ELSE [old EXCEPT !.status = "error", !.error_message = message,
                   !.updated_at = now]

\* per-item catch block: integration update, log row, results.errors++; the
\* cron sweep logs through log_integration_activity (log_level 'info')
SweepCatch ==
  /\ sweep.pc = "catch"
  /\ LET i == sweep.item.integration
     IN /\ integrations' = [integrations EXCEPT
             ![i] = SweepFailedRow(sweep.variant, @, sweep.item.health_score,
                                   sweep.error)]
        /\ logs' = logs \cup
             {LogRow(integrations[i].user_id, integrations[i].provider_key,
                     "health_check", "error",
                     IF sweep.variant = "cron" THEN "info" ELSE "error")}
        /\ sweep' = AfterCatch([sweep EXCEPT !.results.errors = @ + 1,
                                             !.failed = @ \cup {i}])
  /\ UNCHANGED <<credentials, jobs, storeReq, revokeReq, refreshReq, worker,
                 queue, now, ops, due, oauth_states, callbackReq,
                 getReq, integration_webhooks, integration_events, webhookReq,
                 client, cryptoCall, pluginCall>>

\* the stored refresh token of a credential is damaged (bit rot, a write with
\* another key)
Corrupt(c, damaged) ==
  /\ ops < MaxOps
  /\ c \in Ids(credentials)
  /\ credentials[c].refresh_token \notin {Null} \cup CorruptCiphertexts
  /\ credentials' = [credentials EXCEPT ![c].refresh_token = damaged]
  /\ ops' = ops + 1
  /\ UNCHANGED <<integrations, jobs, logs, storeReq, revokeReq, refreshReq,
                 sweep, worker, queue, now, due, oauth_states, callbackReq,
                 getReq, integration_webhooks, integration_events, webhookReq,
                 client, cryptoCall, pluginCall>>

----------------------------------------------------------------------------
(* OAuth flow: the start handler inserts a row of oauth_states, the        *)
(* callback handler looks the state up, exchanges the code, has            *)
(* storeCredentials save the tokens and deletes the row.  A row's          *)
(* state_token is its index; a deleted row keeps its place with            *)
(* deleted = TRUE.                                                         *)

CallbackSlots == {1, 2}

\* 10 * 60 * 1000 ms, in minutes
StateLifetime == 10

\* the wall clock advances in steps of TickMinutes up to MaxNow
TickMinutes == 5
MaxNow == 15

CallbackIdle == [pc |-> "idle", state |-> 0, result |-> "none"]

\* start handler: .from('oauth_states').insert({..., expires_at: now + 10 min})
OAuthStart(u, p) ==
  /\ ops < MaxOps
  /\ oauth_states' = Append(oauth_states,
       [user_id |-> u, platform |-> p, expires_at |-> now + StateLifetime,
        deleted |-> FALSE])
  /\ ops' = ops + 1
  /\ UNCHANGED <<integrations, credentials, jobs, logs, storeReq, revokeReq,
                 refreshReq, sweep, worker, queue, now, due, callbackReq,
                 getReq, integration_webhooks, integration_events, webhookReq,
                 client, cryptoCall, pluginCall>>

Tick ==
  /\ now < MaxNow
  /\ now' = now + TickMinutes
  /\ UNCHANGED <<integrations, credentials, jobs, logs, storeReq, revokeReq,
                 refreshReq, sweep, worker, queue, ops, due, oauth_states,
                 callbackReq,
                 getReq, integration_webhooks, integration_events, webhookReq,
                 client, cryptoCall, pluginCall>>

\* .eq('state_token', state).eq('platform', provider).single()
StateFound(state, provider) ==
  /\ state \in Ids(oauth_states)
  /\ ~oauth_states[state].deleted
  /\ oauth_states[state].platform = provider

\* new Date(oauthState.expires_at) < new Date()
StateExpired(expires_at, t) == expires_at < t

\* callback handler up to the code exchange: state lookup and expiry check
CallbackRead(s, state, provider) ==
  /\ callbackReq[s].pc = "idle"
  /\ ops < MaxOps
  /\ callbackReq' = [callbackReq EXCEPT ![s] =
       IF ~StateFound(state, provider)
       THEN [pc |-> "idle", state |-> state, result |-> "invalid_state"]
       ELSE IF StateExpired(oauth_states[state].expires_at, now)
       THEN [pc |-> "idle", state |-> state, result |-> "expired_state"]
       ELSE [pc |-> "store", state |-> state, result |-> "none"]]
  /\ ops' = ops + 1
  /\ UNCHANGED <<integrations, credentials, jobs, logs, storeReq, revokeReq,
                 refreshReq, sweep, worker, queue, now, due, oauth_states,
                 getReq, integration_webhooks, integration_events, webhookReq,
                 client, cryptoCall, pluginCall>>

\* the body the callback posts to storeCredentials; it has no workspaceId
CallbackPayload(state) ==
  [userId |-> oauth_states[state].user_id,
   providerKey |-> oauth_states[state].platform,
   workspaceId |-> NoWorkspace, credentialType |-> "oauth",
   accessToken |-> 1, refreshToken |-> 3,
   expiresAt |-> now + ProviderExpiresIn]

\* code exchange and the awaited call of storeCredentials, which saves the
\* Integration, the Credential, a log row and a bootstrap job; exchanged =
\* FALSE: the provider refuses the code; stored = FALSE: storeCredentials
\* answers with an error
CallbackStore(s, exchanged, stored) ==
  /\ callbackReq[s].pc = "store"
  /\ LET p  == CallbackPayload(callbackReq[s].state)
         id == Len(integrations) + 1
     IN IF exchanged /\ stored
        THEN /\ integrations' = Append(integrations,
                  UpsertIntegrationRow("index", p, NewIntegrationRow(p)))
             /\ credentials' = UpsertCredential(p, id)
             /\ logs' = logs \cup
                  {LogRow(p.userId, p.providerKey, "store_credential",
                          "connected", "info")}
             /\ jobs' = Append(jobs, [integration_id |-> id,
                                      status |-> "pending"])
             /\ callbackReq' = [callbackReq EXCEPT ![s].pc = "delete"]
        ELSE /\ callbackReq' = [callbackReq EXCEPT
                  ![s].pc = "idle",
                  ![s].result = IF exchanged THEN "storage_failed"
                                ELSE "token_exchange_failed"]
             /\ UNCHANGED <<integrations, credentials, logs, jobs>>
  /\ UNCHANGED <<storeReq, revokeReq, refreshReq, sweep, worker, queue, now,
                 ops, due, oauth_states,
                 getReq, integration_webhooks, integration_events, webhookReq,
                 client, cryptoCall, pluginCall>>

\* .from('oauth_states').delete().eq('state_token', state), then the
\* redirect to the success page
CallbackDelete(s) ==
  /\ callbackReq[s].pc = "delete"
  /\ oauth_states' = [oauth_states EXCEPT
       ![callbackReq[s].state].deleted = TRUE]
  /\ callbackReq' = [callbackReq EXCEPT ![s].pc = "idle",
                                        ![s].result = "success"]
  /\ UNCHANGED <<integrations, credentials, jobs, logs, storeReq, revokeReq,
                 refreshReq, sweep, worker, queue, now, ops, due,
                 getReq, integration_webhooks, integration_events, webhookReq,
                 client, cryptoCall, pluginCall>>

----------------------------------------------------------------------------
(* CredentialManager.getCredential: the read of the active credential of   *)
(* (user, platform) and the update of last_used_at and connection_count    *)
(* are two awaited calls.                                                  *)

GetSlots == {1, 2}

GetIdle ==
  [pc |-> "idle", user_id |-> "u1", platform |-> "gmail", credential |-> 0,
   connection_count |-> 0, result |-> "none"]

\* .eq('user_id', userId).eq('platform', platform).eq('is_active', true)
ActiveCredentials(u, p) ==
  {c \in Ids(credentials) :
      /\ credentials[c].user_id = u
      /\ credentials[c].platform = p
      /\ credentials[c].is_active}

\* the select with .single(): no row (PGRST116) returns null
GetCredentialRead(s, u, p) ==
  /\ getReq[s].pc = "idle"
  /\ ops < MaxOps
  /\ ops' = ops + 1
  /\ LET hit == ActiveCredentials(u, p)
     IN getReq' = [getReq EXCEPT ![s] =
          IF hit = {}
          THEN [GetIdle EXCEPT !.user_id = u, !.platform = p,
                               !.result = "null"]
          ELSE LET c == CHOOSE c \in hit : TRUE
               IN [pc |-> "touch", user_id |-> u, platform |-> p,
                   credential |-> c,
                   connection_count |-> credentials[c].connection_count,
                   result |-> "none"]]
  /\ UNCHANGED <<integrations, credentials, jobs, logs, storeReq, revokeReq,
                 refreshReq, sweep, worker, queue, now, due, oauth_states,
                 callbackReq, integration_webhooks, integration_events,
                 webhookReq, client, cryptoCall, pluginCall>>

\* .update({last_used_at, connection_count: (data.connection_count || 0) + 1})
\* .eq('id', data.id), then return data
GetCredentialTouch(s) ==
  /\ getReq[s].pc = "touch"
  /\ credentials' = [credentials EXCEPT
       ![getReq[s].credential].last_used_at = now,
       ![getReq[s].credential].connection_count =
          getReq[s].connection_count + 1]
  /\ getReq' = [getReq EXCEPT ![s].pc = "idle", ![s].result = "found"]
  /\ UNCHANGED <<integrations, jobs, logs, storeReq, revokeReq, refreshReq,
                 sweep, worker, queue, now, ops, due, oauth_states,
                 callbackReq, integration_webhooks, integration_events,
                 webhookReq, client, cryptoCall, pluginCall>>

----------------------------------------------------------------------------
(* Webhook ingestor: supabase/functions/webhooks/[provider].ts.  A row of   *)
(* integration_webhooks is a Webhook Registration; webhook_id is not unique *)
(* in the table.                                                           *)

\* values of the x-webhook-id header; 0 is a request without the header
WebhookIds == {0, 1, 2}

WebhookIdle ==
  [pc |-> "idle", provider |-> "gmail", webhook_id |-> 0, integration |-> 0,
   success |-> FALSE, eventId |-> 0]

\* a registration written through the owner's policy on integration_webhooks
RegisterWebhook(i, webhookId) ==
  /\ ops < MaxOps
  /\ i \in Ids(integrations)
  /\ webhookId # 0
  /\ integration_webhooks' = Append(integration_webhooks,
       [integration_id |-> i, webhook_id |-> webhookId])
  /\ ops' = ops + 1
  /\ UNCHANGED <<integrations, credentials, jobs, logs, storeReq, revokeReq,
                 refreshReq, sweep, worker, queue, now, due, oauth_states,
                 callbackReq, getReq, integration_events, webhookReq, client,
                 cryptoCall, pluginCall>>

\* .from("integration_webhooks").select("integration_id")
\* .eq("webhook_id", webhookId).single()
RegistrationsOf(webhookId) ==
  {r \in Ids(integration_webhooks) :
      integration_webhooks[r].webhook_id = webhookId}

\* the integration the handler resolves, 0 if none: .single() gives an error
\* unless exactly one registration matches
ResolveIntegration(webhookId) ==
  IF webhookId # 0 /\ Cardinality(RegistrationsOf(webhookId)) = 1
  THEN integration_webhooks[CHOOSE r \in RegistrationsOf(webhookId) : TRUE]
         .integration_id
  ELSE 0

\* handler up to the event insert: body, headers, lookup of the integration
WebhookLookup(provider, webhookId) ==
  /\ webhookReq.pc = "idle"
  /\ ops < MaxOps
  /\ ops' = ops + 1
  /\ webhookReq' = [pc |-> "store", provider |-> provider,
                    webhook_id |-> webhookId,
                    integration |-> ResolveIntegration(webhookId),
                    success |-> FALSE, eventId |-> 0]
  /\ UNCHANGED <<integrations, credentials, jobs, logs, storeReq, revokeReq,
                 refreshReq, sweep, worker, queue, now, due, oauth_states,
                 callbackReq, getReq, integration_webhooks,
                 integration_events, client, cryptoCall, pluginCall>>

\* the row of the integration_events insert; integration?.id is undefined
\* without an integration and the column stays NULL
EventRow(provider, integration) ==
  [provider |-> provider,
   integration_id |-> IF integration = 0 THEN Null ELSE integration,
   user_id |-> IF integration = 0 THEN "null"
               ELSE integrations[integration].user_id,
   processed |-> FALSE]

\* event insert, log row, response; eventOk = FALSE is a datastore error on
\* the insert (logged to the console, the response is the same)
WebhookStore(eventOk) ==
  /\ webhookReq.pc = "store"
  /\ integration_events' =
       IF eventOk
       THEN Append(integration_events,
                   EventRow(webhookReq.provider, webhookReq.integration))
       ELSE integration_events
  /\ logs' = IF webhookReq.integration # 0
             THEN logs \cup
                    {LogRow(integrations[webhookReq.integration].user_id,
                            webhookReq.provider, "webhook_received",
                            "connected", "info")}
             ELSE logs
  /\ webhookReq' = [webhookReq EXCEPT
       !.pc = "idle", !.success = TRUE,
       !.eventId = IF eventOk THEN Len(integration_events) + 1 ELSE 0]
  /\ UNCHANGED <<integrations, credentials, jobs, storeReq, revokeReq,
                 refreshReq, sweep, worker, queue, now, ops, due,
                 oauth_states, callbackReq, getReq, integration_webhooks,
                 client, cryptoCall, pluginCall>>

----------------------------------------------------------------------------
(* Provider plugins: GmailProvider, InstagramProvider and SlackProvider of *)
(* integrations-core.  An operation is a function of its options and of    *)
(* what the provider's HTTP endpoint answers.                               *)

PluginProviders == {"gmail", "instagram", "slack"}
PluginOperations == {"bootstrap", "refreshToken", "revokeAccess"}

\* what the provider answers to a call: a 2xx response with a JSON body, a
\* 2xx response whose body is not JSON, a 2xx response of the Slack API with
\* ok: false, an error status with a JSON body, an error status whose body
\* is not JSON, or no response at all (fetch rejects)
ProviderResponses ==
  {"ok", "ok_not_json", "api_not_ok", "http_error", "http_error_not_json",
   "network"}

\* only the Slack API reports a failure in a 2xx response
ResponsesOf(provider) ==
  IF provider = "slack" THEN ProviderResponses
  ELSE ProviderResponses \ {"api_not_ok"}

\* await fetch(...) rejects
FetchThrows(response) == response = "network"
\* response.ok
ResponseOk(response) == response \in {"ok", "ok_not_json", "api_not_ok"}
\* await response.json() rejects
JsonThrows(response) == response \in {"ok_not_json", "http_error_not_json"}

\* BaseIntegrationProvider.makeRequest: rejects when fetch rejects, with
\* new Error(...) when !response.ok, and when the body of a 2xx response is
\* not JSON
makeRequestThrows(response) == response \notin {"ok", "api_not_ok"}

\* called: the operation has sent a request to the provider
PluginSuccess ==
  [threw |-> FALSE, success |-> TRUE, error |-> "none", called |-> TRUE]
PluginFailure(error) ==
  [threw |-> FALSE, success |-> FALSE, error |-> error, called |-> TRUE]
PluginRefusal(error) ==
  [threw |-> FALSE, success |-> FALSE, error |-> error, called |-> FALSE]

gmailBootstrap(response) ==
  IF makeRequestThrows(response)
  THEN PluginFailure("Failed to validate Gmail access token")
  ELSE PluginSuccess

\* a refreshToken whose try block has no catch
gmailRefreshTokenUncaught(response) ==
  IF FetchThrows(response) \/ JsonThrows(response)
  THEN [PluginSuccess EXCEPT !.threw = TRUE, !.success = FALSE]
  ELSE IF ~ResponseOk(response)
  THEN PluginFailure("Failed to refresh access token")
  ELSE PluginSuccess

\* response.json() is awaited before response.ok is tested
gmailRefreshToken(response) ==
  IF FetchThrows(response) \/ JsonThrows(response)
  THEN PluginFailure("Gmail token refresh failed")
  ELSE IF ~ResponseOk(response)
  THEN PluginFailure("Failed to refresh access token")
  ELSE PluginSuccess

\* response.json() is awaited only when !response.ok
gmailRevokeAccess(accessToken, response) ==
  IF ~accessToken
  THEN PluginRefusal("Access token is required to revoke Gmail access")
  ELSE IF FetchThrows(response)
  THEN PluginFailure("Gmail access revocation failed")
  ELSE IF ~ResponseOk(response)
  THEN IF JsonThrows(response)
       THEN PluginFailure("Gmail access revocation failed")
       ELSE PluginFailure("Failed to revoke access token")
  ELSE PluginSuccess

instagramBootstrap(response) ==
  IF makeRequestThrows(response)
  THEN PluginFailure("Failed to validate Instagram access token")
  ELSE PluginSuccess

instagramRefreshToken(response) ==
  IF FetchThrows(response) \/ JsonThrows(response)
  THEN PluginFailure("Instagram token refresh failed")
  ELSE IF ~ResponseOk(response)
  THEN PluginFailure("Failed to refresh access token")
  ELSE PluginSuccess

\* no revoke endpoint: no request is sent
instagramRevokeAccess ==
  [threw |-> FALSE, success |-> TRUE, error |-> "none", called |-> FALSE]

\* auth.test and team.info; `if (!authTest.ok) throw` inside the inner try
slackBootstrap(response) ==
  IF makeRequestThrows(response) \/ response = "api_not_ok"
  THEN PluginFailure("Failed to validate Slack access token")
  ELSE PluginSuccess

slackRefreshToken == PluginRefusal("Slack does not support token refresh")

slackRevokeAccess(accessToken, response) ==
  IF ~accessToken
  THEN PluginRefusal("Access token is required to revoke Slack access")
  ELSE IF FetchThrows(response) \/ JsonThrows(response)
  THEN PluginFailure("Slack access revocation failed")
  ELSE IF ~ResponseOk(response) \/ response = "api_not_ok"
  THEN PluginFailure("Failed to revoke access token")
  ELSE PluginSuccess

PluginResult(provider, operation, accessToken, response) ==
  CASE provider = "gmail" /\ operation = "bootstrap" ->
         gmailBootstrap(response)
    [] provider = "gmail" /\ operation = "refreshToken" ->
         gmailRefreshToken(response)
    [] provider = "gmail" /\ operation = "revokeAccess" ->
         gmailRevokeAccess(accessToken, response)
    [] provider = "instagram" /\ operation = "bootstrap" ->
         instagramBootstrap(response)
    [] provider = "instagram" /\ operation = "refreshToken" ->
         instagramRefreshToken(response)
    [] provider = "instagram" /\ operation = "revokeAccess" ->
         instagramRevokeAccess
    [] provider = "slack" /\ operation = "bootstrap" ->
         slackBootstrap(response)
    [] provider = "slack" /\ operation = "refreshToken" ->
         slackRefreshToken
    [] provider = "slack" /\ operation = "revokeAccess" ->
         slackRevokeAccess(accessToken, response)

NoPluginCall ==
  [pc |-> "idle", provider |-> "gmail", operation |-> "bootstrap",
   accessToken |-> FALSE, response |-> "ok", result |-> PluginSuccess]

\* a caller invokes an operation; a request without credentials is never
\* answered with success by the provider
PluginInvoke(provider, operation, accessToken, response) ==
  /\ pluginCall.pc = "idle"
  /\ accessToken \/ ~ResponseOk(response)
  /\ pluginCall' = [pc |-> "called", provider |-> provider,
                    operation |-> operation, accessToken |-> accessToken,
                    response |-> response, result |-> PluginSuccess]
  /\ UNCHANGED <<integrations, credentials, jobs, logs, storeReq, revokeReq,
                 refreshReq, sweep, worker, queue, now, ops, due,
                 oauth_states, callbackReq, getReq, integration_webhooks,
                 integration_events, webhookReq, client, cryptoCall>>

\* the promise of the operation settles
PluginReturn ==
  /\ pluginCall.pc = "called"
  /\ pluginCall' = [pluginCall EXCEPT
       !.pc = "returned",
       !.result = PluginResult(pluginCall.provider, pluginCall.operation,
                               pluginCall.accessToken, pluginCall.response)]
  /\ UNCHANGED <<integrations, credentials, jobs, logs, storeReq, revokeReq,
                 refreshReq, sweep, worker, queue, now, ops, due,
                 oauth_states, callbackReq, getReq, integration_webhooks,
                 integration_events, webhookReq, client, cryptoCall>>

----------------------------------------------------------------------------
(* util/crypto.ts on strings.  A string is a sequence of characters; a key *)
(* is a passphrase.  CryptoJS.AES.encrypt(data, key).toString() is the     *)
(* OpenSSL format: a "Salted__" header with the random salt, then the      *)
(* characters enciphered under the key derived from passphrase and salt.   *)
(* CryptoJS.AES.decrypt reads the salt, derives the key and deciphers.     *)

Chars == {1, 2, 3}
Alphabet == 4
Keys == {1, 2}
Salts == {0, 1}
\* longest plaintext
MaxLen == 3

Strings == UNION {[1..n -> Chars] : n \in 0..MaxLen}

\* key derivation from passphrase and salt (EvpKDF)
DeriveKey(key, salt) == key + salt

\* block cipher on one character, and its inverse
Encipher(c, k) == (c + k) % Alphabet
Decipher(c, k) == (c - k + 2 * Alphabet) % Alphabet

\* CryptoJS.AES.encrypt(data, key).toString()
AESencrypt(data, key, salt) ==
  <<salt>> \o [i \in 1..Len(data) |-> Encipher(data[i], DeriveKey(key, salt))]

\* CryptoJS.AES.decrypt(encryptedData, key).toString(CryptoJS.enc.Utf8)
AESdecrypt(encryptedData, key) ==
  [i \in 1..(Len(encryptedData) - 1) |->
     Decipher(encryptedData[i + 1], DeriveKey(key, encryptedData[1]))]

\* a decrypt that does not use the salt of the ciphertext
decryptStringUnsalted(encryptedData, key) ==
  IF encryptedData = <<>> THEN <<>>
  ELSE [i \in 1..(Len(encryptedData) - 1) |->
          Decipher(encryptedData[i + 1], DeriveKey(key, 0))]

\* encrypt: if (!data) return ""
encryptString(data, key, salt) ==
  IF data = <<>> THEN <<>> ELSE AESencrypt(data, key, salt)

\* decrypt: if (!encryptedData) return ""
decryptString(encryptedData, key) ==
  IF encryptedData = <<>> THEN <<>> ELSE AESdecrypt(encryptedData, key)

NoCryptoCall ==
  [pc |-> "idle", data |-> <<>>, key |-> 1, encrypted |-> <<>>,
   decryptKey |-> 1, decrypted |-> <<>>]

\* encrypt(data, key); the salt is drawn by the library
CryptoEncrypt(data, key, salt) ==
  /\ cryptoCall.pc = "idle"
  /\ cryptoCall' = [pc |-> "encrypted", data |-> data, key |-> key,
                    encrypted |-> encryptString(data, key, salt),
                    decryptKey |-> key, decrypted |-> <<>>]
  /\ UNCHANGED <<integrations, credentials, jobs, logs, storeReq, revokeReq,
                 refreshReq, sweep, worker, queue, now, ops, due,
                 oauth_states, callbackReq, getReq, integration_webhooks,
                 integration_events, webhookReq, client, pluginCall>>

\* decrypt(encrypted, key) with the same or with another key
CryptoDecrypt(key) ==
  /\ cryptoCall.pc = "encrypted"
  /\ cryptoCall' = [cryptoCall EXCEPT
       !.pc = "decrypted",
       !.decryptKey = key,
       !.decrypted = decryptString(cryptoCall.encrypted, key)]
  /\ UNCHANGED <<integrations, credentials, jobs, logs, storeReq, revokeReq,
                 refreshReq, sweep, worker, queue, now, ops, due,
                 oauth_states, callbackReq, getReq, integration_webhooks,
                 integration_events, webhookReq, client, pluginCall>>

----------------------------------------------------------------------------
(* Browser: the zustand store of src/store/integrationStore.ts, persisted  *)
(* whole under 'integration-storage', and the CredentialManager reads it   *)
(* calls.  A save request is served by storeCredentials: storeReq is the   *)
(* invocation that serves the request in flight.                           *)

NoUser == "null"

\* an entry of the connectedPlatforms map; present = FALSE: no entry
NoPlatform == [present |-> FALSE, accessToken |-> 0, refreshToken |-> 0]

\* credentialData of a save: the secrets the user holds
ClientCredentialData ==
  {[accessToken |-> 1, refreshToken |-> 3, expiresAt |-> 30]}

ClientSaveIdle ==
  [pc |-> "idle", platform |-> "gmail", payload |-> NoPayload,
   returned |-> "none"]

ClientInit ==
  [currentUserId |-> NoUser,
   connectedPlatforms |-> [p \in Platforms |-> NoPlatform],
   integrations |-> {}, error |-> NoError, save |-> ClientSaveIdle]

\* setCurrentUserId: without a user both maps are emptied; with a user the
\* two loads are started (LoadCredentials, LoadIntegrations)
SetCurrentUserId(userId) ==
  /\ client.currentUserId # userId
  /\ client' = IF userId = NoUser
               THEN [client EXCEPT
                       !.currentUserId = userId,
                       !.connectedPlatforms = [p \in Platforms |-> NoPlatform],
                       !.integrations = {}]
               ELSE [client EXCEPT !.currentUserId = userId]
  /\ UNCHANGED <<integrations, credentials, jobs, logs, storeReq, revokeReq,
                 refreshReq, sweep, worker, queue, now, ops, due,
                 oauth_states, callbackReq, getReq, integration_webhooks,
                 integration_events, webhookReq, cryptoCall, pluginCall>>

\* CredentialManager.getCredentials: select('*') of the user's active rows
getCredentials(userId) ==
  {c \in Ids(credentials) :
      credentials[c].user_id = userId /\ credentials[c].is_active}

\* the ConnectedPlatform built from a row: accessToken: cred.access_token ||
\* cred.api_key || '', refreshToken: cred.refresh_token
PlatformOfRow(cred) ==
  [present |-> TRUE,
   accessToken |-> IF cred.access_token = Null THEN 0 ELSE cred.access_token,
   refreshToken |-> cred.refresh_token]

\* loadCredentialsFromDatabase: the map is replaced by the rows read
LoadCredentials ==
  /\ client.currentUserId # NoUser
  /\ LET rows == getCredentials(client.currentUserId)
     IN client' = [client EXCEPT !.connectedPlatforms =
          [p \in Platforms |->
             IF \E c \in rows : credentials[c].platform = p
             THEN PlatformOfRow(
                    credentials[CHOOSE c \in rows :
                                  credentials[c].platform = p])
             ELSE NoPlatform]]
  /\ UNCHANGED <<integrations, credentials, jobs, logs, storeReq, revokeReq,
                 refreshReq, sweep, worker, queue, now, ops, due,
                 oauth_states, callbackReq, getReq, integration_webhooks,
                 integration_events, webhookReq, cryptoCall, pluginCall>>

\* CredentialManager.getIntegrations
getIntegrations(userId) ==
  {i \in Ids(integrations) : integrations[i].user_id = userId}

\* loadIntegrationsFromDatabase
LoadIntegrations ==
  /\ client.currentUserId # NoUser
  /\ client' = [client EXCEPT
       !.integrations = getIntegrations(client.currentUserId),
       !.error = NoError]
  /\ UNCHANGED <<integrations, credentials, jobs, logs, storeReq, revokeReq,
                 refreshReq, sweep, worker, queue, now, ops, due,
                 oauth_states, callbackReq, getReq, integration_webhooks,
                 integration_events, webhookReq, cryptoCall, pluginCall>>

\* the body of the fetch: it has no workspaceId
ClientPayload(userId, platform, data) ==
  [userId |-> userId, providerKey |-> platform, workspaceId |-> NoWorkspace,
   credentialType |-> "oauth", accessToken |-> data.accessToken,
   refreshToken |-> data.refreshToken, expiresAt |-> data.expiresAt]

\* saveCredentialToDatabase up to the fetch; without a user it returns false
ClientSaveSend(platform, data) ==
  /\ client.save.pc = "idle"
  /\ storeReq.pc = "idle"
  /\ IF client.currentUserId = NoUser
     THEN /\ client' = [client EXCEPT
                          !.save = [ClientSaveIdle EXCEPT
                                      !.platform = platform,
                                      !.returned = "false"]]
          /\ UNCHANGED storeReq
     ELSE /\ client' = [client EXCEPT
                          !.error = NoError,
                          !.save = [pc |-> "fetch", platform |-> platform,
                                    payload |-> ClientPayload(
                                      client.currentUserId, platform, data),
                                    returned |-> "none"]]
          /\ storeReq' = StoreIdle
  /\ UNCHANGED <<integrations, credentials, jobs, logs, revokeReq,
                 refreshReq, sweep, worker, queue, now, ops, due,
                 oauth_states, callbackReq, getReq, integration_webhooks,
                 integration_events, webhookReq, cryptoCall, pluginCall>>

\* the request of the save in flight has not been taken by the function yet
SaveRequestPending == client.save.pc = "fetch" /\ storeReq = StoreIdle

\* the function has answered the request of the save in flight
SaveRequestAnswered ==
  client.save.pc = "fetch" /\ storeReq.pc = "idle" /\ storeReq # StoreIdle

\* the error of the function's 500 response
ServerError(variant) ==
  IF variant = "index" THEN "Failed to store credential"
  ELSE "Failed to store credentials"

\* the ConnectedPlatform of the save: the secrets of credentialData
PlatformOfPayload(p) ==
  [present |-> TRUE, accessToken |-> p.accessToken,
   refreshToken |-> IF p.refreshToken = 0 THEN Absent ELSE p.refreshToken]

\* the platform is connected before the response is looked at
SaveSettledOptimistic(ok, message) ==
  IF ok
  THEN [client EXCEPT
          !.connectedPlatforms[client.save.platform] =
             PlatformOfPayload(client.save.payload),
          !.save.pc = "reload"]
  ELSE [client EXCEPT
          !.connectedPlatforms[client.save.platform] =
             PlatformOfPayload(client.save.payload),
          !.error = message,
          !.save.pc = "idle",
          !.save.returned = "false"]

\* the store after the fetch has settled: response.ok adds the platform and
\* goes on to reload the integrations; otherwise the catch block sets error
\* to the message and the call returns false
SaveSettled(ok, message) ==
  IF ok
  THEN [client EXCEPT
          !.connectedPlatforms[client.save.platform] =
             PlatformOfPayload(client.save.payload),
          !.save.pc = "reload"]
  ELSE [client EXCEPT
          !.error = message,
          !.save.pc = "idle",
          !.save.returned = "false"]

\* the response of the function arrives
ClientSaveResponse ==
  /\ SaveRequestAnswered
  /\ client' = SaveSettled(storeReq.response.success,
                           ServerError(storeReq.variant))
  /\ UNCHANGED <<integrations, credentials, jobs, logs, storeReq, revokeReq,
                 refreshReq, sweep, worker, queue, now, ops, due,
                 oauth_states, callbackReq, getReq, integration_webhooks,
                 integration_events, webhookReq, cryptoCall, pluginCall>>

\* the fetch rejects (no connection): catch block
ClientSaveRejected ==
  /\ SaveRequestPending
  /\ client' = SaveSettled(FALSE, "Failed to fetch")
  /\ UNCHANGED <<integrations, credentials, jobs, logs, storeReq, revokeReq,
                 refreshReq, sweep, worker, queue, now, ops, due,
                 oauth_states, callbackReq, getReq, integration_webhooks,
                 integration_events, webhookReq, cryptoCall, pluginCall>>

\* await get().loadIntegrationsFromDatabase(); return true
ClientSaveReload ==
  /\ client.save.pc = "reload"
  /\ client' = [client EXCEPT
       !.integrations = IF client.currentUserId = NoUser
                        THEN client.integrations
                        ELSE getIntegrations(client.currentUserId),
       !.error = IF client.currentUserId = NoUser THEN client.error
                 ELSE NoError,
       !.save.pc = "idle",
       !.save.returned = "true"]
  /\ UNCHANGED <<integrations, credentials, jobs, logs, storeReq, revokeReq,
                 refreshReq, sweep, worker, queue, now, ops, due,
                 oauth_states, callbackReq, getReq, integration_webhooks,
                 integration_events, webhookReq, cryptoCall, pluginCall>>

----------------------------------------------------------------------------
Init ==
  /\ integrations = <<>>
  /\ credentials = <<>>
  /\ jobs = <<>>
  /\ logs = {}
  /\ storeReq = StoreIdle
  /\ revokeReq = RevokeIdle
  /\ refreshReq = [s \in RefreshSlots |-> RefreshIdle]
  /\ sweep = SweepIdle
  /\ worker = [w \in WorkerSlots |-> WorkerIdle]
  /\ queue = <<>>
  /\ now = 0
  /\ ops = 0
  /\ due = NoDue
  /\ oauth_states = <<>>
  /\ callbackReq = [s \in CallbackSlots |-> CallbackIdle]
  /\ getReq = [s \in GetSlots |-> GetIdle]
  /\ integration_webhooks = <<>>
  /\ integration_events = <<>>
  /\ webhookReq = WebhookIdle
  /\ client = ClientInit
  /\ cryptoCall = NoCryptoCall
  /\ pluginCall = NoPluginCall

Next ==
  \/ \E v \in StoreVariants, p \in Payloads : StoreUpsertIntegration(v, p)
  \/ \E credOk \in BOOLEAN, jobOk \in BOOLEAN :
        StoreUpsertCredential(credOk, jobOk)
  \/ \E i \in Ids(integrations), u \in Users, o \in ProviderOutcomes :
        RevokeRead(i, u, o)
  \/ RevokeUpdateCredential
  \/ RevokeUpdateIntegration
  \/ \E u \in Users, p \in Platforms : RevokeByPlatformRead(u, p)
  \/ RevokeByPlatformUpdate
  \/ \E s \in RefreshSlots, i \in Ids(integrations), u \in Users,
        t \in TokenResponses : RefreshRead(s, i, u, t)
  \/ \E s \in RefreshSlots, i \in Ids(integrations), u \in Users :
        RefreshFail(s, i, u)
  \/ \E s \in RefreshSlots : RefreshUpdateCredential(s)
  \/ \E s \in RefreshSlots : RefreshUpdateIntegration(s)

Spec == Init /\ [][Next]_vars

\* saves, revokes and the bootstrap workers
NextBootstrap ==
  \/ \E p \in Payloads : StoreUpsertIntegration("index", p)
  \/ \E credOk \in BOOLEAN, jobOk \in BOOLEAN :
        StoreUpsertCredential(credOk, jobOk)
  \/ \E i \in Ids(integrations), u \in Users, o \in ProviderOutcomes :
        RevokeRead(i, u, o)
  \/ RevokeUpdateCredential
  \/ RevokeUpdateIntegration
  \/ \E j \in Ids(jobs) : QueueBootstrapJob(j)
  \/ \E w \in WorkerSlots : PollJobs(w)
  \/ \E w \in WorkerSlots : ProcessJob(w)
  \/ \E w \in WorkerSlots, o \in BootstrapOutcomes : BullProcess(w, o)
  \/ \E w \in WorkerSlots : BootstrapReturns(w)
  \/ \E w \in WorkerSlots : BootstrapUpdateIntegration(w)
  \/ \E w \in WorkerSlots : BootstrapCompleteJob(w)
  \/ \E w \in WorkerSlots : BootstrapFailIntegration(w)
  \/ \E w \in WorkerSlots : BootstrapFailJob(w)

SpecBootstrap == Init /\ [][NextBootstrap]_vars

\* what one running worker process does next: the polling script or the
\* BullMQ processor, each provider call returning
WorkerStep(w) ==
  \/ ProcessBootstrapJobs(w)
  \/ ProcessJob(w)
  \/ \E o \in BootstrapOutcomes : BullProcess(w, o)
  \/ BootstrapReturns(w)
  \/ BootstrapUpdateIntegration(w)
  \/ BootstrapCompleteJob(w)
  \/ BootstrapFailIntegration(w)
  \/ BootstrapFailJob(w)

\* the saves of credentials without refresh token and expiry: the workers
\* only ask whether an access token is there
JobPayloads == {p \in Payloads : p.refreshToken = 0}

\* saves, queued jobs and workers that keep running
NextJobsLive ==
  \/ \E v \in StoreVariants, p \in JobPayloads : StoreUpsertIntegration(v, p)
  \/ \E credOk \in BOOLEAN, jobOk \in BOOLEAN :
        StoreUpsertCredential(credOk, jobOk)
  \/ \E j \in Ids(jobs) : QueueBootstrapJob(j)
  \/ \E w \in WorkerSlots : WorkerStep(w)

SpecJobsLive ==
  /\ Init /\ [][NextJobsLive]_vars
  /\ \A w \in WorkerSlots : WF_vars(WorkerStep(w))

\* saves, damaged ciphertexts and the health sweeps
NextSweep ==
  \/ \E v \in StoreVariants, p \in Payloads : StoreUpsertIntegration(v, p)
  \/ \E credOk \in BOOLEAN : StoreUpsertCredential(credOk, TRUE)
  \/ \E c \in Ids(credentials), d \in CorruptCiphertexts : Corrupt(c, d)
  \/ \E v \in SweepVariants : sweep.runs < MaxSweeps /\ SweepStart(v)
  \/ \E x \in sweep.todo, dbOk \in BOOLEAN : SweepCronItem(x, dbOk)
  \/ SweepUpdateIntegration
  \/ \E x \in sweep.todo, readOk \in BOOLEAN : SweepIndexItem(x, readOk)
  \/ SweepCatch

SpecSweep == Init /\ [][NextSweep]_vars

\* the same with refresh-one calls
NextSweepRefresh ==
  \/ NextSweep
  \/ \E i \in Ids(integrations), u \in Users, t \in TokenResponses :
        RefreshRead(1, i, u, t)
  \/ RefreshUpdateCredential(1)
  \/ RefreshUpdateIntegration(1)

SpecSweepRefresh == Init /\ [][NextSweepRefresh]_vars

\* the index sweep on its schedule, without end
IndexSweepStep ==
  \/ SweepStart("index")
  \/ \E x \in sweep.todo : SweepIndexItem(x, TRUE)
  \/ SweepCatch

NextSweepLive ==
  \/ \E v \in StoreVariants, p \in Payloads : StoreUpsertIntegration(v, p)
  \/ \E credOk \in BOOLEAN : StoreUpsertCredential(credOk, TRUE)
  \/ \E x \in sweep.todo : SweepIndexItem(x, FALSE)
  \/ IndexSweepStep

\* the schedule keeps starting sweeps, and a handler that has started runs
\* to its response
SpecSweepLive ==
  /\ Init /\ [][NextSweepLive]_vars
  /\ WF_vars(IndexSweepStep)
  /\ WF_vars(\E credOk \in BOOLEAN : StoreUpsertCredential(credOk, TRUE))

\* the cron sweep on its schedule, without end, with the scaled batch size
CronSweepStep ==
  \/ SweepStartLimited("cron", SmallBatch)
  \/ \E x \in sweep.todo : SweepCronItem(x, TRUE)
  \/ SweepUpdateIntegration
  \/ SweepCatch

\* saves that connect at once, at different times, and the repeated cron
\* sweep
NextBatch ==
  \/ \E p \in Payloads : StoreUpsertIntegration("legacy", p)
  \/ \E credOk \in BOOLEAN : StoreUpsertCredential(credOk, TRUE)
  \/ Tick
  \/ \E x \in sweep.todo : SweepCronItem(x, FALSE)
  \/ CronSweepStep

\* the schedule keeps starting sweeps, and a handler that has started runs
\* to its response
SpecBatch ==
  /\ Init /\ [][NextBatch]_vars
  /\ WF_vars(CronSweepStep)
  /\ WF_vars(\E credOk \in BOOLEAN : StoreUpsertCredential(credOk, TRUE))

\* the OAuth flow
NextOAuth ==
  \/ \E u \in Users, p \in Platforms : OAuthStart(u, p)
  \/ Tick
  \/ \E s \in CallbackSlots, state \in Ids(oauth_states), p \in Platforms :
        CallbackRead(s, state, p)
  \/ \E s \in CallbackSlots, exchanged \in BOOLEAN, stored \in BOOLEAN :
        CallbackStore(s, exchanged, stored)
  \/ \E s \in CallbackSlots : CallbackDelete(s)

SpecOAuth == Init /\ [][NextOAuth]_vars

\* saves, revokes and getCredential calls
NextGet ==
  \/ \E p \in Payloads : StoreUpsertIntegration("index", p)
  \/ \E credOk \in BOOLEAN : StoreUpsertCredential(credOk, TRUE)
  \/ \E i \in Ids(integrations), u \in Users : RevokeRead(i, u, "ok")
  \/ RevokeUpdateCredential
  \/ RevokeUpdateIntegration
  \/ Tick
  \/ \E s \in GetSlots, u \in Users, p \in Platforms :
        GetCredentialRead(s, u, p)
  \/ \E s \in GetSlots : GetCredentialTouch(s)

SpecGet == Init /\ [][NextGet]_vars

\* saves, webhook registrations and webhook requests
NextWebhook ==
  \/ \E p \in Payloads : StoreUpsertIntegration("index", p)
  \/ \E credOk \in BOOLEAN : StoreUpsertCredential(credOk, TRUE)
  \/ \E i \in Ids(integrations), w \in WebhookIds : RegisterWebhook(i, w)
  \/ \E p \in Platforms, w \in WebhookIds : WebhookLookup(p, w)
  \/ \E eventOk \in BOOLEAN : WebhookStore(eventOk)

SpecWebhook == Init /\ [][NextWebhook]_vars

\* one call of a provider plugin operation
NextPlugin ==
  \/ \E p \in PluginProviders, o \in PluginOperations, t \in BOOLEAN :
       \E r \in ResponsesOf(p) : PluginInvoke(p, o, t, r)
  \/ PluginReturn

SpecPlugin == Init /\ [][NextPlugin]_vars

\* one encrypt / decrypt round
NextCrypto ==
  \/ \E d \in Strings, k \in Keys, salt \in Salts : CryptoEncrypt(d, k, salt)
  \/ \E k \in Keys : CryptoDecrypt(k)

SpecCrypto == Init /\ [][NextCrypto]_vars

\* the browser's store and the storeCredentials function that serves it
NextClient ==
  \/ \E u \in Users \cup {NoUser} : SetCurrentUserId(u)
  \/ LoadCredentials
  \/ LoadIntegrations
  \/ \E p \in Platforms, d \in ClientCredentialData : ClientSaveSend(p, d)
  \/ \E v \in StoreVariants :
        SaveRequestPending /\ StoreUpsertIntegration(v, client.save.payload)
  \/ \E credOk \in BOOLEAN, jobOk \in BOOLEAN :
        StoreUpsertCredential(credOk, jobOk)
  \/ ClientSaveResponse
  \/ ClientSaveRejected
  \/ ClientSaveReload

SpecClient == Init /\ [][NextClient]_vars

\* saves and revokes whose provider call is awaited; the handler's own steps
\* are taken when they can be, the provider answers or does not
RevokeHandlerStep == RevokeUpdateCredential \/ RevokeUpdateIntegration

NextRevokeLive ==
  \/ \E v \in StoreVariants, p \in Payloads : StoreUpsertIntegration(v, p)
  \/ \E credOk \in BOOLEAN : StoreUpsertCredential(credOk, TRUE)
  \/ \E i \in Ids(integrations), u \in Users : RevokeCall(i, u)
  \/ \E o \in ProviderOutcomes : RevokeProviderSettles(o)
  \/ RevokeHandlerStep

SpecRevokeLive ==
  /\ Init /\ [][NextRevokeLive]_vars
  /\ WF_vars(RevokeHandlerStep)

\* the refresh-due decision on every credential of DueInputs
InitDue ==
  /\ integrations = <<>>
  /\ credentials = <<>>
  /\ jobs = <<>>
  /\ logs = {}
  /\ storeReq = StoreIdle
  /\ revokeReq = RevokeIdle
  /\ refreshReq = [s \in RefreshSlots |-> RefreshIdle]
  /\ sweep = SweepIdle
  /\ worker = [w \in WorkerSlots |-> WorkerIdle]
  /\ queue = <<>>
  /\ now = 0
  /\ ops = 0
  /\ \E d \in DueInputs :
       due = [pc |-> "input", credential_type |-> d.credential_type,
              expires_at |-> d.expires_at, refresh_token |-> d.refresh_token,
              t |-> d.t, index |-> FALSE, cron |-> FALSE,
              cronRefreshes |-> FALSE]
  /\ oauth_states = <<>>
  /\ callbackReq = [s \in CallbackSlots |-> CallbackIdle]
  /\ getReq = [s \in GetSlots |-> GetIdle]
  /\ integration_webhooks = <<>>
  /\ integration_events = <<>>
  /\ webhookReq = WebhookIdle
  /\ client = ClientInit
  /\ cryptoCall = NoCryptoCall
  /\ pluginCall = NoPluginCall

NextDue == DecideDue

SpecDue == InitDue /\ [][NextDue]_vars

----------------------------------------------------------------------------
(* Properties of the credential store *)

\* C1: the credentials table never holds two rows for one (user, platform),
\* and a successful save leaves exactly one active row for its (user,
\* platform), holding the access and refresh token of that save.
C1_IdempotentUpsert ==
  /\ [](\A c1, c2 \in Ids(credentials) :
          (/\ credentials[c1].user_id = credentials[c2].user_id
           /\ credentials[c1].platform = credentials[c2].platform) => c1 = c2)
  /\ [][(storeReq.pc = "credential" /\ storeReq'.pc = "idle"
           /\ storeReq'.response.success) =>
        LET p == storeReq.payload
            rows == {c \in DOMAIN credentials' :
                       /\ credentials'[c].user_id = p.userId
                       /\ credentials'[c].platform = p.providerKey
                       /\ credentials'[c].is_active}
        IN /\ Cardinality(rows) = 1
           /\ \A c \in rows :
                /\ credentials'[c].access_token = encryptOrNull(p.accessToken)
                /\ credentials'[c].refresh_token =
                     encryptOrNull(p.refreshToken)]_vars

\* two saves for one (user, platform) have succeeded, the second with other
\* secrets than the first: one credential row, two bootstrap jobs, and the
\* row holds the secrets of the save that has just returned
C1_Witness ==
  /\ storeReq.pc = "idle"
  /\ storeReq.response.success
  /\ Len(credentials) = 1
  /\ Len(jobs) = 2
  /\ credentials[1].is_active
  /\ credentials[1].access_token = encrypt(2)
  /\ credentials[1].refresh_token = Null
  /\ credentials[1].expires_at = 30

\* C2: a save that reports success leaves its Integration pending and its
\* Credential connected and active.
C2_SaveLeavesPending ==
  [][(storeReq.pc = "credential" /\ storeReq'.pc = "idle"
        /\ storeReq'.response.success) =>
     /\ integrations'[storeReq.integration].status = "pending"
     /\ \A c \in DOMAIN credentials' :
          (/\ credentials'[c].user_id = storeReq.payload.userId
           /\ credentials'[c].platform = storeReq.payload.providerKey) =>
          (credentials'[c].status = "connected" /\ credentials'[c].is_active)
    ]_vars

\* C3: when a revoke returns success, the Credential is inactive and
\* disconnected and the Integration is disconnected, whatever the provider's
\* revokeAccess did.
C3_RevokeDeactivates ==
  [][(revokeReq.pc # "idle" /\ revokeReq'.pc = "idle" /\ revokeReq'.success) =>
     /\ ~credentials'[revokeReq.credential].is_active
     /\ credentials'[revokeReq.credential].status = "disconnected"
     /\ integrations'[revokeReq.integration].status = "disconnected"]_vars

\* C4: a disconnected Integration leaves that status only in the integrations
\* upsert of a storeCredentials call.
C4_DisconnectedUntilSave ==
  [][\A i \in Ids(integrations) :
       (integrations[i].status = "disconnected"
          /\ integrations'[i].status # "disconnected") =>
       (storeReq.pc = "idle" /\ storeReq'.pc = "credential"
          /\ storeReq'.integration = i)]_vars

\* C5: of two refresh attempts that read the same tokens of the same
\* credential, at most one writes the credential row.
C5_SingleRotation ==
  \A s, t \in RefreshSlots :
    (/\ s # t
     /\ refreshReq[s].pc = "integration" \/ refreshReq[s].success
     /\ refreshReq[t].pc = "integration" \/ refreshReq[t].success) =>
    ~(/\ refreshReq[s].credential = refreshReq[t].credential
      /\ refreshReq[s].read_access = refreshReq[t].read_access
      /\ refreshReq[s].read_refresh = refreshReq[t].read_refresh)

\* C6: once a revoke has completed, a refresh that read the credential
\* while it was still active does not set the Credential or the Integration
\* back to connected.
C6_RevokeAtomicWithRefresh ==
  [][\A s \in RefreshSlots :
       (/\ revokeReq.pc = "idle"
        /\ revokeReq.success
        /\ revokeReq.credential = refreshReq[s].credential
        /\ refreshReq[s].read_active
        /\ ~credentials[refreshReq[s].credential].is_active) =>
       /\ (refreshReq[s].pc = "credential"
             /\ refreshReq'[s].pc = "integration") =>
          credentials'[refreshReq[s].credential].status # "connected"
       /\ (/\ refreshReq[s].pc = "integration"
           /\ refreshReq'[s].pc = "idle"
           /\ integrations[refreshReq[s].integration].status = "disconnected")
          => integrations'[refreshReq[s].integration].status # "connected"
    ]_vars

----------------------------------------------------------------------------
(* Properties of the bootstrap workers *)

\* C7: no two workers of the same kind have the provider's bootstrap in
\* flight for the same Integration at the same time.
C7_SingleBootstrap ==
  \A w1, w2 \in WorkerSlots :
    (/\ w1 # w2
     /\ worker[w1].kind = worker[w2].kind
     /\ worker[w1].pc = "bootstrapping"
     /\ worker[w2].pc = "bootstrapping") =>
    worker[w1].integration # worker[w2].integration

\* C8: a job row that is completed or failed keeps its status.
C8_TerminalJobFinal ==
  [][\A j \in Ids(jobs) :
       jobs[j].status \in {"completed", "failed"} =>
       jobs'[j].status = jobs[j].status]_vars

----------------------------------------------------------------------------
(* Properties of the refresh-due decision *)

\* C10: both sweeps find a credential refresh-due exactly when it is of kind
\* oauth, has an expiry and expires_at - now <= 1 hour, and neither
\* refreshes a credential without expiry or of another kind.
C10_RefreshDueRule ==
  due.pc = "decided" =>
    LET ruleDue == /\ due.credential_type = "oauth"
                   /\ due.expires_at # Null
                   /\ due.expires_at - due.t <= 60
    IN /\ due.index = ruleDue
       /\ due.cron = ruleDue
       /\ (due.expires_at = Null \/ due.credential_type # "oauth") =>
            (~due.index /\ ~due.cronRefreshes)

----------------------------------------------------------------------------
(* Properties of the health sweeps *)

\* C11: when a sweep has processed, without an error, an Integration whose
\* credential it met with an expiry 30 minutes ahead and a refresh token that
\* decrypts, the stored expires_at is more than 1 hour ahead and the
\* Integration is connected.
C11_SweepRefreshesExpiring ==
  [][(/\ sweep' # sweep
      /\ sweep.pc # "idle"
      /\ sweep'.pc \in {"idle", "item"}
      /\ sweep'.error = NoError
      /\ sweep'.item.credential # 0
      /\ sweep'.item.expires_at = now + 30
      /\ decryptOrNull(sweep'.item.refresh_token) \notin {0, Malformed}) =>
     /\ credentials'[sweep'.item.credential].expires_at
          > now + RefreshThreshold
     /\ integrations'[sweep'.item.integration].status = "connected"]_vars

\* C12: a refresh that succeeds, in the sweep or in a refresh-one call, leaves
\* the Credential connected and the Integration connected with health score
\* 100 and no error message.
C12_RefreshResetsHealth ==
  [][/\ (sweep.pc = "integration" /\ sweep'.pc # "integration") =>
          /\ credentials'[sweep.item.credential].status = "connected"
          /\ integrations'[sweep.item.integration].status = "connected"
          /\ integrations'[sweep.item.integration].health_score = 100
          /\ integrations'[sweep.item.integration].error_message = NoError
     /\ \A s \in RefreshSlots :
          (/\ refreshReq[s].pc = "integration"
           /\ refreshReq'[s].pc = "idle"
           /\ refreshReq'[s].success) =>
          /\ credentials'[refreshReq[s].credential].status = "connected"
          /\ integrations'[refreshReq[s].integration].status = "connected"
          /\ integrations'[refreshReq[s].integration].health_score = 100
          /\ integrations'[refreshReq[s].integration].error_message = NoError
    ]_vars

\* C13: a failure of the sweep on an Integration lowers its health score by
\* 10 from the stored value, floored at 0.
C13_FailureLowersHealth ==
  [][\A i \in Ids(integrations) :
       (i \in sweep'.failed /\ i \notin sweep.failed) =>
       integrations'[i].health_score =
         MathMax(0, integrations[i].health_score - 10)]_vars

C15_PartialFailureIsolation ==
  /\ sweep.results.errors = Cardinality(sweep.failed)
  /\ sweep.pc = "idle" =>
       /\ sweep.todo = {}
       /\ sweep.failed \subseteq sweep.selected
       /\ sweep.results.refreshed + sweep.results.skipped
            + sweep.results.errors = sweep.results.total

\* a sweep over 3 Integrations has ended with errors = 1 and refreshed +
\* skipped = 2, and the Integration it processed last is not the failed one
C15_Witness ==
  /\ sweep.pc = "idle"
  /\ sweep.results.total = 3
  /\ sweep.results.errors = 1
  /\ sweep.results.refreshed + sweep.results.skipped = 2
  /\ sweep.item.integration \notin sweep.failed

\* C16: when a sweep has processed an Integration whose credential it met
\* with a damaged refresh_token ciphertext, the Integration is in error with
\* the message of the failed decrypt and the stored tokens are unchanged.
C16_BadDecryptSetsError ==
  [][(/\ sweep' # sweep
      /\ sweep.pc # "idle"
      /\ sweep'.pc \in {"idle", "item"}
      /\ sweep'.item.refresh_token \in CorruptCiphertexts) =>
     /\ integrations'[sweep'.item.integration].status = "error"
     /\ integrations'[sweep'.item.integration].error_message
          = "Malformed UTF-8 data"
     /\ credentials'[sweep'.item.credential].refresh_token
          = sweep'.item.refresh_token
     /\ credentials'[sweep'.item.credential].access_token
          = credentials[sweep'.item.credential].access_token]_vars

\* C17: a revoke whose provider call failed or threw has written a log row of
\* the revoke that records a failure.
C17_ProviderFailureLogged ==
  [][(/\ revokeReq.pc = "integration"
      /\ revokeReq'.pc = "idle"
      /\ revokeReq'.success
      /\ revokeReq.provider \in {"failed", "threw"}) =>
     \E row \in logs' :
        /\ row.action = "revoke_token"
        /\ row.status = "error" \/ row.log_level \in {"warn", "error"}]_vars

\* C18: with sweeps running on schedule and finitely many datastore errors,
\* no Integration stays in error forever while it has an active credential
\* whose refresh token decrypts.
C18_ErrorIsRetried ==
  \A i \in 1..MaxOps :
    []<>~(/\ i \in Ids(integrations)
          /\ integrations[i].status = "error"
          /\ \E c \in CredentialsByIntegration(i) :
               /\ credentials[c].is_active
               /\ decryptOrNull(credentials[c].refresh_token)
                    \notin {0, Malformed})

----------------------------------------------------------------------------
(* Properties of the OAuth state *)

\* C19: no two callbacks store a credential with the same state token, and a
\* callback that presents a token with which a credential has been stored is
\* rejected.
C19_StateUsedOnce ==
  /\ [](\A s1, s2 \in CallbackSlots :
          (/\ s1 # s2
           /\ callbackReq[s1].pc = "delete" \/ callbackReq[s1].result = "success"
           /\ callbackReq[s2].pc = "delete" \/ callbackReq[s2].result = "success")
          => callbackReq[s1].state # callbackReq[s2].state)
  /\ [][\A s \in CallbackSlots :
          (callbackReq[s].pc = "idle" /\ callbackReq'[s].pc = "store") =>
          /\ ~oauth_states[callbackReq'[s].state].deleted
          /\ \A o \in CallbackSlots :
               (callbackReq[o].pc = "delete"
                  \/ callbackReq[o].result = "success")
               => callbackReq[o].state # callbackReq'[s].state]_vars

\* C20: a callback that presents a state whose expiry has been reached is
\* rejected.
C20_ExpiredStateRejected ==
  [][\A s \in CallbackSlots :
       (/\ callbackReq[s].pc = "idle"
        /\ callbackReq'[s] # callbackReq[s]
        /\ callbackReq'[s].state \in Ids(oauth_states)
        /\ oauth_states[callbackReq'[s].state].expires_at <= now) =>
       /\ callbackReq'[s].pc = "idle"
       /\ callbackReq'[s].result \in {"invalid_state", "expired_state"}]_vars

----------------------------------------------------------------------------
(* Properties of the save contract *)

\* C21: a save that reports success has created exactly one new Sync Job, in
\* status pending, for the Integration it returns, and returns that job's id.
C21_SaveEnqueuesJob ==
  [][(/\ storeReq.pc = "credential"
      /\ storeReq'.pc = "idle"
      /\ storeReq'.response.success) =>
     /\ Len(jobs') = Len(jobs) + 1
     /\ jobs'[Len(jobs')].integration_id = storeReq'.response.integrationId
     /\ jobs'[Len(jobs')].status = "pending"
     /\ storeReq'.response.jobId = Len(jobs')]_vars

\* C22: a save that fails leaves nothing behind: as long as no save has
\* stored a credential and none is in flight, there is no Integration row and
\* no Sync Job.
C22_SaveAllOrNothing ==
  (storeReq.pc = "idle" /\ credentials = <<>>) =>
    (integrations = <<>> /\ jobs = <<>>)

----------------------------------------------------------------------------
(* Properties of getCredential *)

\* C23: getCredential returns a credential exactly when an active one exists
\* for the pair, and then raises its usage counter by one and sets its
\* last-used time; when none is active it returns not-found and changes
\* nothing.
C23_GetTouchesActive ==
  [][\A s \in GetSlots :
       /\ (getReq[s].pc = "idle" /\ getReq'[s] # getReq[s]) =>
            /\ (getReq'[s].pc = "touch") =
                 (ActiveCredentials(getReq'[s].user_id,
                                    getReq'[s].platform) # {})
            /\ getReq'[s].pc = "idle" =>
                 (getReq'[s].result = "null" /\ credentials' = credentials)
       /\ (getReq[s].pc = "touch" /\ getReq'[s].pc = "idle") =>
            /\ getReq'[s].result = "found"
            /\ credentials'[getReq[s].credential].connection_count =
                 credentials[getReq[s].credential].connection_count + 1
            /\ credentials'[getReq[s].credential].last_used_at = now]_vars

----------------------------------------------------------------------------
(* Properties of the webhook ingestor *)

\* C24: a webhook request answered with success has stored exactly one event
\* row with processed = FALSE, attributed to an Integration whose Webhook
\* Registration carries the request's webhook id, or to no Integration when
\* no registration carries it.
C24_WebhookStored ==
  [][(/\ webhookReq.pc = "store"
      /\ webhookReq'.pc = "idle"
      /\ webhookReq'.success) =>
     /\ Len(integration_events') = Len(integration_events) + 1
     /\ LET row  == integration_events'[Len(integration_events')]
            regs == RegistrationsOf(webhookReq.webhook_id)
        IN /\ row.processed = FALSE
           /\ IF regs = {} THEN row.integration_id = Null
              ELSE row.integration_id \in
                     {integration_webhooks[r].integration_id : r \in regs}
    ]_vars

----------------------------------------------------------------------------
(* Properties of the provider plugins *)

----------------------------------------------------------------------------
(* Properties of the cipher *)

----------------------------------------------------------------------------
(* Properties of the browser's store *)

\* C27: no token held in connectedPlatforms is a ciphertext of the
\* credentials table.
C27_NoCiphertextInClient ==
  \A p \in Platforms :
    client.connectedPlatforms[p].present =>
      \A c \in Ids(credentials) :
        /\ client.connectedPlatforms[p].accessToken = credentials[c].access_token
             => credentials[c].access_token = Null
        /\ client.connectedPlatforms[p].refreshToken
             = credentials[c].refresh_token
             => credentials[c].refresh_token = Null

\* C28: saveCredentialToDatabase adds the platform to connectedPlatforms and
\* returns true when the store-credentials request succeeds; when the
\* request fails it returns false, sets error to the error of the response
\* and leaves connectedPlatforms unchanged; without a current user it returns
\* false and sends no request.
C28_ClientSaveResult ==
  [][/\ (client.save.pc = "fetch" /\ client'.save.pc # "fetch") =>
          IF storeReq # StoreIdle /\ storeReq.response.success
          THEN /\ client'.save.pc = "reload"
               /\ client'.connectedPlatforms[client.save.platform].present
          ELSE /\ client'.save.returned = "false"
               /\ client'.connectedPlatforms = client.connectedPlatforms
               /\ client'.error =
                    IF storeReq = StoreIdle THEN "Failed to fetch"
                    ELSE ServerError(storeReq.variant)
     /\ (client.save.pc = "reload" /\ client'.save.pc # "reload") =>
          /\ client'.save.returned = "true"
          /\ client'.connectedPlatforms = client.connectedPlatforms
     /\ (/\ client.save.pc = "idle"
         /\ client'.save # client.save
         /\ client.currentUserId = NoUser) =>
          /\ client'.save.returned = "false"
          /\ client'.save.pc = "idle"
          /\ storeReq' = storeReq
          /\ client'.connectedPlatforms = client.connectedPlatforms
     /\ client'.save.returned = "true" =>
          (client.save.pc = "reload" \/ client.save.returned = "true")
    ]_vars

\* a save has returned false after the function answered with an error, and
\* the platform of the save is not connected
C28_Witness ==
  /\ client.save.pc = "idle"
  /\ client.save.returned = "false"
  /\ client.currentUserId # NoUser
  /\ storeReq # StoreIdle
  /\ ~storeReq.response.success
  /\ client.error = ServerError(storeReq.variant)
  /\ ~client.connectedPlatforms[client.save.platform].present

----------------------------------------------------------------------------
(* Properties of the failure paths *)

\* C29: a refresh-one call that fails after its request was accepted leaves
\* the Integration in status error and an error log entry of the refresh,
\* and answers without success.
C29_RefreshFailureRecorded ==
  [][\A s \in RefreshSlots, i \in Ids(integrations), u \in Users :
       RefreshFail(s, i, u) =>
         /\ ~refreshReq'[s].success
         /\ integrations'[i].status = "error"
         /\ LogRow(integrations[i].user_id, integrations[i].provider_key,
                   "refresh_token", "error", "error") \in logs'
    ]_vars

\* C30: a failed bootstrap sets the Integration to error with the message of
\* the failure, marks the Sync Job failed and appends an error log entry of
\* the Integration's user and platform.
C30_BootstrapFailureRecorded ==
  [][\A w \in WorkerSlots :
       /\ BootstrapFailIntegration(w) =>
            /\ integrations'[worker[w].integration].status = "error"
            /\ integrations'[worker[w].integration].error_message
                 = worker[w].error
       /\ BootstrapFailJob(w) =>
            /\ jobs'[worker[w].job].status = "failed"
            /\ \E l \in logs' :
                 /\ l.user_id = integrations[worker[w].integration].user_id
                 /\ l.platform
                      = integrations[worker[w].integration].provider_key
                 /\ l.action = "bootstrap"
                 /\ l.status = "error"
    ]_vars

----------------------------------------------------------------------------
(* Properties of the audit trail and of the sweeps *)

\* C31: a bootstrap worker or a revoke that has changed the status of an
\* Integration has written, when it is done with it, an Integration Log row
\* of its own action for the Integration's user and platform.
C31_StatusChangeLogged ==
  [][/\ \A w \in WorkerSlots :
          (BootstrapFailJob(w) \/ BootstrapCompleteJob(w)) =>
            \E l \in logs' :
              /\ l.user_id = integrations[worker[w].integration].user_id
              /\ l.platform
                   = integrations[worker[w].integration].provider_key
              /\ l.action = "bootstrap"
     /\ RevokeUpdateIntegration =>
          \E l \in logs' :
            /\ l.user_id = integrations[revokeReq.integration].user_id
            /\ l.platform = integrations[revokeReq.integration].provider_key
            /\ l.action = "revoke_token"
    ]_vars

\* C32: a sweep takes up every Integration in connected or error that has no
\* active Credential, sets it to error with an error log row of the health
\* check, and goes on with the Integrations it has left.
C32_MissingCredentialSetsError ==
  [][/\ \A v \in SweepVariants :
          SweepStart(v) =>
            \A i \in SweepSelected :
              (\A c \in CredentialsByIntegration(i) :
                  ~credentials[c].is_active) => i \in sweep'.selected
     /\ (/\ sweep.pc = "item"
         /\ sweep' # sweep
         /\ \A c \in CredentialsByIntegration(sweep'.item.integration) :
               ~credentials[c].is_active) =>
          LET i == sweep'.item.integration
          IN /\ integrations'[i].status = "error"
             /\ LogRow(integrations[i].user_id, integrations[i].provider_key,
                       "health_check", "error", "error") \in logs'
             /\ sweep'.pc = IF sweep'.todo = {} THEN "idle" ELSE "item"
    ]_vars

\* C33: the steps of a sweep on an Integration whose credential is not
\* refresh-due (not of kind oauth, without expiry, or expiring more than 1
\* hour ahead) change neither the Integration nor the credential, and no
\* step of a sweep changes an Integration that is pending or disconnected.
C33_SweepLeavesUntouched ==
  [][/\ (sweep' # sweep /\ sweep.pc \in {"item", "integration", "catch"}) =>
          LET x == IF sweep.pc = "item" THEN sweep'.item ELSE sweep.item
          IN (/\ x.credential # 0
              /\ ~(/\ credentials[x.credential].credential_type = "oauth"
                   /\ x.expires_at # Null
                   /\ x.expires_at - now <= RefreshThreshold)) =>
               /\ integrations'[x.integration] = integrations[x.integration]
               /\ credentials'[x.credential] = credentials[x.credential]
     /\ \A i \in Ids(integrations) :
          (sweep' # sweep /\ integrations'[i] # integrations[i]) =>
            integrations[i].status \in {"connected", "error"}
    ]_vars

----------------------------------------------------------------------------
(* Properties of the tables *)

\* C34: the integrations table never holds two rows for one (user, provider
\* key, workspace), a null workspace included.
C34_OneIntegrationPerTriple ==
  \A i1, i2 \in Ids(integrations) :
    (/\ integrations[i1].user_id = integrations[i2].user_id
     /\ integrations[i1].provider_key = integrations[i2].provider_key
     /\ integrations[i1].workspace_id = integrations[i2].workspace_id)
    => i1 = i2

\* C35: when a bootstrap has succeeded, integration_webhooks holds one row
\* for its Integration and no more, with the webhook id that bootstrap
\* returned.
C35_OneWebhookRegistration ==
  [][\A w \in WorkerSlots :
       BootstrapUpdateIntegration(w) =>
         LET rows == {r \in DOMAIN integration_webhooks' :
                        integration_webhooks'[r].integration_id
                          = worker[w].integration}
         IN /\ Cardinality(rows) = 1
            /\ \A r \in rows :
                 integration_webhooks'[r].webhook_id = worker[w].job
    ]_vars

----------------------------------------------------------------------------
(* Properties of the revoke under a provider that may not answer *)

\* C36: a revoke that has sent its request to the provider goes on, whether
\* the provider answers or not: its Credential is deactivated, and it ends
\* with its Integration disconnected.
C36_RevokeAlwaysFinishes ==
  /\ (revokeReq.pc = "provider") ~>
       (/\ revokeReq.pc = "integration"
        /\ ~credentials[revokeReq.credential].is_active
        /\ credentials[revokeReq.credential].status = "disconnected")
  /\ (revokeReq.pc = "provider") ~>
       (/\ revokeReq.pc = "idle"
        /\ revokeReq.success
        /\ integrations[revokeReq.integration].status = "disconnected")

----------------------------------------------------------------------------
(* Properties that relate the Integration and its Credential *)

\* C37: whenever no save, revoke or refresh is in flight, every Integration
\* that is connected has an active Credential that references it.
C37_ConnectedHasActiveCredential ==
  (/\ storeReq.pc = "idle"
   /\ revokeReq.pc = "idle"
   /\ \A s \in RefreshSlots : refreshReq[s].pc = "idle") =>
    \A i \in Ids(integrations) :
      integrations[i].status = "connected" =>
        \E c \in Ids(credentials) :
          /\ credentials[c].integration_id = i
          /\ credentials[c].is_active

\* C38: a Credential that is not active has status disconnected.
C38_InactiveIsDisconnected ==
  \A c \in Ids(credentials) :
    ~credentials[c].is_active => credentials[c].status = "disconnected"

\* C39: under repeated cron health sweeps every Integration in status
\* connected or error that the select can return (it has a Credential row) is
\* eventually among the Integrations a sweep has selected, or leaves these
\* statuses
C39_EveryIntegrationExamined ==
  \A i \in 1..MaxOps :
    (i \in CronSelected) ~> (i \in sweep.selected \/ i \notin CronSelected)

\* the same while no two selectable Integrations share their updated_at, so
\* that the order of the select is fixed
C39_ExaminedWithoutTies ==
  \A i \in 1..MaxOps :
    (i \in CronSelected)
      ~> \/ i \in sweep.selected
         \/ i \notin CronSelected
         \/ \E a, b \in CronSelected :
              a # b /\ integrations[a].updated_at = integrations[b].updated_at

====
